---- MODULE Spec2Model ----
(***************************************************************************)
(* Verification model of the scene/battle orchestration core of            *)
(* pokemon-remix: SceneManager, GameState, WorldScene and BattleScene.     *)
(*                                                                         *)
(* The module holds several specifications over the same variables:        *)
(*   Spec         the running game: frames, key presses and timers         *)
(*   SpecOverlap  the running game with two delayed continuations pending  *)
(*   SpecLive     the running game that keeps going (fairness conditions)  *)
(*   SpecSM       SceneManager.setScene over arbitrary registered scenes   *)
(*   SpecGS       the GameState store and its event handlers               *)
(*   SpecPersist  GameState with save, load, deserialize and reset         *)
(*   SpecReset    GameState mutators followed by reset                     *)
(*   SpecDlg      a DialogBox driven by arbitrary callers                  *)
(*   SpecPokemon  a Pokemon attacked, healed and restored by its callers   *)
(*   SpecBus      an EventBus with subscribers that throw and emit         *)
(*   SpecLoad     GameState saved and loaded, the key shared with public/  *)
(*   SpecReveal   two DialogBox reveals of one text, fed frame times       *)
(* Each of the last nine leaves the variables it does not model unchanged. *)
(***************************************************************************)
EXTENDS Integers, Sequences, FiniteSets, TLC

VARIABLES
    \* ---- SceneManager (src/src/scenes/SceneManager.ts) ----
    smScenes,     \* this.scenes: registered name -> the hooks the scene object defines
    smCurrent,    \* this._currentScene
    smTrace,      \* the calls made by the last setScene call, in order
    smOp,         \* the last operation applied to the manager, with its arguments
    \* ---- GameState (src/src/state/GameState.ts) ----
    defPos,       \* the object DEFAULT_PLAYER.position (shared by reference)
    defNpcs,      \* the objects of DEFAULT_NPCS: id -> defeated (shared by reference)
    gsPlayer,     \* this.player
    gsNpcs,       \* this.npcs: id -> the NPCState object it holds
    gsFlags,      \* this.flags
    gsMap,        \* this.currentMap
    storage,      \* localStorage item 'pokemon-remix-save'
    gsOp,         \* the last GameState operation, its arguments and its outcome
    \* ---- the running game (Game, WorldScene, BattleScene, SettingsMenuScene) ----
    world,        \* the WorldScene object: player freeze, dialogue, flash, NPC met
    battle,       \* the BattleScene object: state, selection, pokemon, dialogue
    timers,       \* pending setTimeout continuations, in the order they were set
    menuOpen,     \* settingsMenu.isOpen
    emitted,      \* the events emitted by the last step, in order
    gmOp,         \* the last step of the game and the collisions it handled
    gmEnv,        \* what the surroundings of this run do: keys, NPCs met, overlap
    \* ---- a DialogBox on its own (src/src/entities/TiledMap.ts) ----
    dlg,          \* the box: visibility, completion, texts, queue, callback
    dlgHist,      \* what its callers did and saw since the last displayText
    \* ---- a Pokemon on its own (src/src/entities/Entity.ts) ----
    pk,           \* the pokemon: registry key, currentHp, isFainted
    pkOp,         \* the last call on it: kind, amount, currentHp before the call
    \* ---- an EventBus on its own (src/unnamed/part_009) ----
    bus,          \* this.listeners, and what each once() registration has seen
    busOp,        \* the last call on the bus and what it did
    \* ---- the typewriter timing of DialogBox (src/src/entities/TiledMap.ts) ----
    rv            \* two boxes revealing the same text: timer, queue, completion

smVars == <<smScenes, smCurrent, smTrace, smOp>>
gsVars == <<defPos, defNpcs, gsPlayer, gsNpcs, gsFlags, gsMap, storage, gsOp>>

gmVars == <<world, battle, timers, menuOpen, emitted, gmOp, gmEnv>>

dlgVars == <<dlg, dlgHist>>

pkVars == <<pk, pkOp>>

busVars == <<bus, busOp>>

rvVars == <<rv>>

vars == <<smVars, gsVars, gmVars, dlgVars, pkVars, busVars, rvVars>>

\* What an operation of one component leaves alone: the other components.
nonSMVars == <<gsVars, gmVars, dlgVars, pkVars, busVars, rvVars>>
nonGSVars == <<smVars, gmVars, dlgVars, pkVars, busVars, rvVars>>
nonDlgVars == <<smVars, gsVars, gmVars, pkVars, busVars, rvVars>>
nonPkVars == <<smVars, gsVars, gmVars, dlgVars, busVars, rvVars>>
nonBusVars == <<smVars, gsVars, gmVars, dlgVars, pkVars, rvVars>>
nonRvVars == <<smVars, gsVars, gmVars, dlgVars, pkVars, busVars>>

-----------------------------------------------------------------------------
(* SceneManager *)

\* SceneName of core/interfaces: the three scenes of the game.
SceneNames == {"menu", "world", "battle"}

\* Transition contexts handed to setScene (data?: Record<string, unknown>).
NoData == "none"
Contexts == {NoData, "gentleman_01", "gentleman_02"}

\* A scene object as the manager sees it: which optional hooks it defines.
SceneObjects == [defined : {TRUE}, hasOnEnter : BOOLEAN, hasOnExit : BOOLEAN]

\* A Map.get() miss: the undefined value, which defines no hook.
Undefined == [defined |-> FALSE, hasOnEnter |-> FALSE, hasOnExit |-> FALSE]

\* this.scenes.get(name)
GetScene(scenes, name) ==
    IF name \in DOMAIN scenes THEN scenes[name] ELSE Undefined

Call(op, scene, arg) == [op |-> op, scene |-> scene, arg |-> arg]

\* Faulty variants of setScene, used to test the claims below: one that forgets
\* reset(), one that lacks the early return for an unregistered name.
SetSceneStepsNoReset(scenes, previousScene, name, data) ==
    LET currentSceneObj == GetScene(scenes, previousScene)
        nextSceneObj    == GetScene(scenes, name)
    IN  IF ~nextSceneObj.defined
        THEN << >>
        ELSE (IF currentSceneObj.defined /\ currentSceneObj.hasOnExit
                 THEN << Call("onExit", previousScene, NoData) >> ELSE << >>)
             \o << Call("switch", name, NoData) >>
             \o (IF nextSceneObj.hasOnEnter
                 THEN << Call("onEnter", name, data) >> ELSE << >>)
             \o (IF previousScene # name
                 THEN << Call("setup", name, NoData) >>
                 ELSE << >>)
             \o << Call("emit:scene:changed", name, previousScene) >>

SetSceneStepsNoGuard(scenes, previousScene, name, data) ==
    LET currentSceneObj == GetScene(scenes, previousScene)
        nextSceneObj    == GetScene(scenes, name)
    IN  (IF currentSceneObj.defined /\ currentSceneObj.hasOnExit
            THEN << Call("onExit", previousScene, NoData) >> ELSE << >>)
        \o << Call("switch", name, NoData) >>
        \o (IF nextSceneObj.hasOnEnter
            THEN << Call("onEnter", name, data) >> ELSE << >>)
        \o (IF previousScene # name
            THEN << Call("reset", name, NoData), Call("setup", name, NoData) >>
            ELSE << >>)
        \o << Call("emit:scene:changed", name, previousScene) >>

\* setScene(name, data): the calls the manager makes, in order.  "switch" is the
\* assignment this._currentScene = name; "emit:scene:changed" carries
\* {from: arg, to: scene}.  An unregistered name logs an error and returns.
SetSceneSteps(scenes, previousScene, name, data) ==
    LET currentSceneObj == GetScene(scenes, previousScene)
        nextSceneObj    == GetScene(scenes, name)
    IN  IF ~nextSceneObj.defined
        THEN << >>
        ELSE (IF currentSceneObj.defined /\ currentSceneObj.hasOnExit
                 THEN << Call("onExit", previousScene, NoData) >> ELSE << >>)
             \o << Call("switch", name, NoData) >>
             \o (IF nextSceneObj.hasOnEnter
                 THEN << Call("onEnter", name, data) >> ELSE << >>)
             \o (IF previousScene # name
                 THEN << Call("reset", name, NoData), Call("setup", name, NoData) >>
                 ELSE << >>)
             \o << Call("emit:scene:changed", name, previousScene) >>

\* The value of this._currentScene after the calls of one setScene.
RECURSIVE CurrentAfter(_, _)
CurrentAfter(current, steps) ==
    IF steps = << >> THEN current
    ELSE CurrentAfter(IF Head(steps).op = "switch" THEN Head(steps).scene ELSE current,
                      Tail(steps))

\* constructor(p, initialScene = "menu"): no scene is registered yet.
SMInit ==
    /\ smScenes = << >>
    /\ smCurrent \in SceneNames
    /\ smTrace = << >>
    /\ smOp = [kind |-> "init", name |-> "menu", data |-> NoData, prev |-> "menu"]

SMIdle ==
    /\ smScenes = << >>
    /\ smCurrent = "menu"
    /\ smTrace = << >>
    /\ smOp = [kind |-> "init", name |-> "menu", data |-> NoData, prev |-> "menu"]

\* registerScene(scene): this.scenes.set(scene.name, scene)
RegisterScene(name, obj) ==
    /\ smScenes' = [n \in DOMAIN smScenes \cup {name} |->
                        IF n = name THEN obj ELSE smScenes[n]]
    /\ smOp' = [kind |-> "registerScene", name |-> name, data |-> NoData,
                prev |-> smCurrent]
    /\ smTrace' = << >>
    /\ UNCHANGED smCurrent
    /\ UNCHANGED nonSMVars

\* setScene(name, data), also the handler of scene:transition {to, context}.
SetScene(name, data) ==
    LET steps == SetSceneSteps(smScenes, smCurrent, name, data)
    IN  /\ smTrace' = steps
        /\ smCurrent' = CurrentAfter(smCurrent, steps)
        /\ smOp' = [kind |-> "setScene", name |-> name, data |-> data,
                    prev |-> smCurrent]
        /\ UNCHANGED smScenes
        /\ UNCHANGED nonSMVars

SMNext ==
    \/ \E name \in SceneNames, obj \in SceneObjects : RegisterScene(name, obj)
    \/ \E name \in SceneNames, data \in Contexts : SetScene(name, data)

-----------------------------------------------------------------------------
(* GameState *)

\* Keys of DEFAULT_NPCS, and an id the table does not hold.
NpcIds == {"gentleman_01", "gentleman_02"}
UnknownNpc == "unknown_npc"

\* DEFAULT_PLAYER.money and the reward BattleScene sends as moneyGained.
DefaultMoney == 3000
RewardMoney == 1000
\* Money is followed up to this many rewards above the default.
MaxRewards == 2

MapIds == {"tower", "cave"}
DefaultPosition == [x |-> 0, y |-> 0, map |-> "tower"]
\* Positions handed to setPlayerPosition.
Coordinates == {5}

\* The absent value of each section of the store and of a persisted blob.
UndefinedPlayer == [defined |-> FALSE, money |-> 0, posRef |-> "own",
                    pos |-> DefaultPosition]
UndefinedNpcs == [defined |-> FALSE, table |-> << >>]
UndefinedFlags == [defined |-> FALSE, tutorialComplete |-> FALSE,
                   firstBattleWon |-> FALSE]
UndefinedMap == "undefined"

\* DEFAULT_FLAGS
DefaultFlags == [defined |-> TRUE, tutorialComplete |-> FALSE,
                 firstBattleWon |-> FALSE]

\* An NPCState object of the table: either the very object of DEFAULT_NPCS
\* (ref = "default", its defeated flag is defNpcs[id]) or an object of its own.
DefaultNpcRef == [ref |-> "default", defeated |-> FALSE]
OwnNpc(defeated) == [ref |-> "own", defeated |-> defeated]

\* npc.defeated of the object the table holds for id.
NpcObjDefeated(npcs, defaults, id) ==
    IF npcs[id].ref = "default" THEN defaults[id] ELSE npcs[id].defeated

\* isNPCDefeated(id): this.npcs.get(id)?.defeated ?? false
IsNPCDefeated(id) ==
    IF id \in DOMAIN gsNpcs THEN NpcObjDefeated(gsNpcs, defNpcs, id) ELSE FALSE

\* this.player.position, read through the reference.
PlayerPosition == IF gsPlayer.posRef = "default" THEN defPos ELSE gsPlayer.pos

\* What the four sections hold, whatever objects hold it.
PlayerContent ==
    [defined |-> gsPlayer.defined,
     money |-> gsPlayer.money,
     pos |-> IF gsPlayer.defined THEN PlayerPosition ELSE DefaultPosition]
NpcsContent == [id \in DOMAIN gsNpcs |-> NpcObjDefeated(gsNpcs, defNpcs, id)]
GSContent ==
    [player |-> PlayerContent, npcs |-> NpcsContent, flags |-> gsFlags,
     currentMap |-> gsMap]

\* The content of a freshly started game (DEFAULT_PLAYER, DEFAULT_NPCS,
\* DEFAULT_FLAGS, 'tower').
FreshContent ==
    [player |-> [defined |-> TRUE, money |-> DefaultMoney, pos |-> DefaultPosition],
     npcs |-> [id \in NpcIds |-> FALSE],
     flags |-> DefaultFlags,
     currentMap |-> "tower"]

\* ---- persisted blobs ----

\* A text handed to deserialize: not JSON at all, the JSON value null, or a JSON
\* object whose sections are present or absent.
GarbageText == [kind |-> "garbage", player |-> UndefinedPlayer, npcs |-> UndefinedNpcs,
                flags |-> UndefinedFlags, currentMap |-> UndefinedMap]
NullText == [kind |-> "null", player |-> UndefinedPlayer, npcs |-> UndefinedNpcs,
             flags |-> UndefinedFlags, currentMap |-> UndefinedMap]
NoStorage == [present |-> FALSE, text |-> GarbageText]

\* serialize(): JSON.stringify of the four sections.  A section that is
\* undefined is left out of the text; object identity is not part of the text.
Serialize ==
    [kind |-> "object",
     player |-> [defined |-> gsPlayer.defined, money |-> gsPlayer.money,
                 posRef |-> "own",
                 pos |-> IF gsPlayer.defined THEN PlayerPosition ELSE DefaultPosition],
     npcs |-> [defined |-> TRUE, table |-> NpcsContent],
     flags |-> gsFlags,
     currentMap |-> gsMap]

Sections == {"player", "npcs", "flags", "currentMap"}

\* The JSON object `text` without the sections in `dropped`.
DropSections(text, dropped) ==
    [kind |-> text.kind,
     player |-> IF "player" \in dropped THEN UndefinedPlayer ELSE text.player,
     npcs |-> IF "npcs" \in dropped THEN UndefinedNpcs ELSE text.npcs,
     flags |-> IF "flags" \in dropped THEN UndefinedFlags ELSE text.flags,
     currentMap |-> IF "currentMap" \in dropped THEN UndefinedMap ELSE text.currentMap]

\* The sets of sections left out of a sample text.
DroppedSections == {{}, {"player"}, {"npcs"}, {"flags"}, {"currentMap"}, Sections}

\* A complete blob: JSON, an object, with all four sections.
IsCompleteBlob(text) ==
    /\ text.kind = "object"
    /\ text.player.defined
    /\ text.npcs.defined
    /\ text.flags.defined
    /\ text.currentMap # UndefinedMap

\* The texts deserialize is tried on: garbage, null, and what serialize gives
\* now or gave at the last save, whole or with sections missing.
SampleTexts ==
    {GarbageText, NullText}
    \cup {DropSections(t, d) :
            t \in {Serialize} \cup (IF storage.present THEN {storage.text} ELSE {}),
            d \in DroppedSections}

\* ---- operations ----

\* The last operation: its name, the NPC id or key it was given, whether it
\* raised an exception to its caller, whether a deserialization it ran failed,
\* and the event it emitted.
GSOp(kind, id, threw, failed, event) ==
    [kind |-> kind, id |-> id, threw |-> threw, failed |-> failed, emitted |-> event]

\* constructor(): shallow copies of the default tables.
GSInit ==
    /\ defPos = DefaultPosition
    /\ defNpcs = [id \in NpcIds |-> FALSE]
    /\ gsPlayer = [defined |-> TRUE, money |-> DefaultMoney, posRef |-> "default",
                   pos |-> DefaultPosition]
    /\ gsNpcs = [id \in NpcIds |-> DefaultNpcRef]
    /\ gsFlags = DefaultFlags
    /\ gsMap = "tower"
    /\ storage = NoStorage
    /\ gsOp = GSOp("init", "none", FALSE, FALSE, "none")

\* setPlayerPosition(x, y, map?): writes into the position object in place.
\* Throws (TypeError) when this.player is undefined.
PositionAfter(pos, x, y, map) ==
    [x |-> x, y |-> y, map |-> IF map = "none" THEN pos.map ELSE map]

SetPlayerPosition(x, y, map) ==
    /\ IF ~gsPlayer.defined
       THEN /\ gsOp' = GSOp("setPlayerPosition", "none", TRUE, FALSE, "none")
            /\ UNCHANGED <<defPos, gsPlayer>>
       ELSE /\ gsOp' = GSOp("setPlayerPosition", "none", FALSE, FALSE, "none")
            /\ IF gsPlayer.posRef = "default"
               THEN /\ defPos' = PositionAfter(defPos, x, y, map)
                    /\ UNCHANGED gsPlayer
               ELSE /\ gsPlayer' = [gsPlayer EXCEPT !.pos = PositionAfter(@, x, y, map)]
                    /\ UNCHANGED defPos
    /\ UNCHANGED <<defNpcs, gsNpcs, gsFlags, gsMap, storage>>
    /\ UNCHANGED nonGSVars

\* addMoney(amount): this.player.money += amount
MoneyAfter(player, amount) == [player EXCEPT !.money = @ + amount]

MoneyInBounds(amount) ==
    gsPlayer.money + amount <= DefaultMoney + MaxRewards * RewardMoney

AddMoney(amount) ==
    /\ gsPlayer.defined => MoneyInBounds(amount)
    /\ IF ~gsPlayer.defined
       THEN /\ gsOp' = GSOp("addMoney", "none", TRUE, FALSE, "none")
            /\ UNCHANGED gsPlayer
       ELSE /\ gsOp' = GSOp("addMoney", "none", FALSE, FALSE, "none")
            /\ gsPlayer' = MoneyAfter(gsPlayer, amount)
    /\ UNCHANGED <<defPos, defNpcs, gsNpcs, gsFlags, gsMap, storage>>
    /\ UNCHANGED nonGSVars

\* npc.defeated = value on the object the table holds for id.
WriteDefeated(npcs, defaults, id, value) ==
    IF npcs[id].ref = "default"
    THEN [npcs |-> npcs, defaults |-> [defaults EXCEPT ![id] = value]]
    ELSE [npcs |-> [npcs EXCEPT ![id].defeated = value], defaults |-> defaults]

MarkDefeatedToggling(npcs, defaults, id) ==
    IF id \in DOMAIN npcs
    THEN WriteDefeated(npcs, defaults, id, ~NpcObjDefeated(npcs, defaults, id))
    ELSE [npcs |-> npcs, defaults |-> defaults]

\* setNPCDefeated(id): if (npc && !npc.defeated) npc.defeated = true
MarkDefeated(npcs, defaults, id) ==
    IF id \in DOMAIN npcs /\ ~NpcObjDefeated(npcs, defaults, id)
    THEN WriteDefeated(npcs, defaults, id, TRUE)
    ELSE [npcs |-> npcs, defaults |-> defaults]

SetNPCDefeated(id) ==
    LET r == MarkDefeated(gsNpcs, defNpcs, id)
    IN  /\ gsNpcs' = r.npcs
        /\ defNpcs' = r.defaults
        /\ gsOp' = GSOp("setNPCDefeated", id, FALSE, FALSE, "none")
        /\ UNCHANGED <<defPos, gsPlayer, gsFlags, gsMap, storage>>
    /\ UNCHANGED nonGSVars

\* The npc:defeated handler.
OnNpcDefeated(id) ==
    LET r == MarkDefeated(gsNpcs, defNpcs, id)
    IN  /\ gsNpcs' = r.npcs
        /\ defNpcs' = r.defaults
        /\ gsOp' = GSOp("npc:defeated", id, FALSE, FALSE, "none")
        /\ UNCHANGED <<defPos, gsPlayer, gsFlags, gsMap, storage>>
    /\ UNCHANGED nonGSVars

\* setFlag(key, value): this.flags[key] = value; throws when flags is undefined.
SetFlag(key, value) ==
    /\ IF ~gsFlags.defined
       THEN /\ gsOp' = GSOp("setFlag", key, TRUE, FALSE, "none")
            /\ UNCHANGED gsFlags
       ELSE /\ gsOp' = GSOp("setFlag", key, FALSE, FALSE, "none")
            /\ gsFlags' = [gsFlags EXCEPT ![key] = value]
    /\ UNCHANGED <<defPos, defNpcs, gsPlayer, gsNpcs, gsMap, storage>>
    /\ UNCHANGED nonGSVars

\* setCurrentMap(map)
SetCurrentMap(map) ==
    /\ gsMap' = map
    /\ gsOp' = GSOp("setCurrentMap", map, FALSE, FALSE, "none")
    /\ UNCHANGED <<defPos, defNpcs, gsPlayer, gsNpcs, gsFlags, storage>>
    /\ UNCHANGED nonGSVars

\* The battle:complete handler.  On a win: setNPCDefeated, then addMoney when
\* moneyGained is truthy, then the firstBattleWon flag.  A TypeError (player or
\* flags undefined) ends the handler where it is raised; the bus swallows it.
BattleCompleteEffect(player, npcs, defaults, flags, id, result, moneyGained) ==
    IF result # "win"
    THEN [player |-> player, npcs |-> npcs, defaults |-> defaults, flags |-> flags,
          threw |-> FALSE]
    ELSE LET r == MarkDefeated(npcs, defaults, id)
         IN  IF moneyGained # 0 /\ ~player.defined
             THEN [player |-> player, npcs |-> r.npcs, defaults |-> r.defaults,
                   flags |-> flags, threw |-> TRUE]
             ELSE LET p == IF moneyGained # 0 THEN MoneyAfter(player, moneyGained)
                           ELSE player
                  IN  IF ~flags.defined
                      THEN [player |-> p, npcs |-> r.npcs, defaults |-> r.defaults,
                            flags |-> flags, threw |-> TRUE]
                      ELSE [player |-> p, npcs |-> r.npcs, defaults |-> r.defaults,
                            flags |-> IF ~flags.firstBattleWon
                                      THEN [flags EXCEPT !.firstBattleWon = TRUE]
                                      ELSE flags,
                            threw |-> FALSE]

OnBattleComplete(id, result, moneyGained) ==
    LET r == BattleCompleteEffect(gsPlayer, gsNpcs, defNpcs, gsFlags, id, result,
                                  moneyGained)
    IN  /\ (result = "win" /\ gsPlayer.defined) => MoneyInBounds(moneyGained)
        /\ gsPlayer' = r.player
        /\ gsNpcs' = r.npcs
        /\ defNpcs' = r.defaults
        /\ gsFlags' = r.flags
        /\ gsOp' = [GSOp("battle:complete", id, r.threw, FALSE, "none")
                        EXCEPT !.kind = "battle:complete:" \o result]
        /\ UNCHANGED <<defPos, gsMap, storage>>
    /\ UNCHANGED nonGSVars

\* executeDebugAction('TOGGLE NPC DEFEATED') of the settings menu:
\* npc = gameState.getNPC('gentleman_01'); if (npc) npc.defeated = !npc.defeated
DebugToggleNpcDefeated ==
    LET r == MarkDefeatedToggling(gsNpcs, defNpcs, "gentleman_01")
    IN  /\ gsNpcs' = r.npcs
        /\ defNpcs' = r.defaults
        /\ gsOp' = GSOp("debugToggle", "gentleman_01", FALSE, FALSE, "none")
        /\ UNCHANGED <<defPos, gsPlayer, gsFlags, gsMap, storage>>
    /\ UNCHANGED nonGSVars

\* Faulty variant of deserialize, used to test the claims below: this.flags is
\* not assigned.
DeserializeEffectKeepingFlags(player, npcs, flags, map, text) ==
    IF text.kind # "object"
    THEN [player |-> player, npcs |-> npcs, flags |-> flags, currentMap |-> map,
          failed |-> TRUE]
    ELSE IF ~text.npcs.defined
    THEN [player |-> text.player, npcs |-> npcs, flags |-> flags, currentMap |-> map,
          failed |-> TRUE]
    ELSE [player |-> text.player,
          npcs |-> [id \in DOMAIN text.npcs.table |-> OwnNpc(text.npcs.table[id])],
          flags |-> flags,
          currentMap |-> text.currentMap,
          failed |-> FALSE]

\* deserialize(data): the assignments of the try block, in order, up to the
\* first one that throws.  JSON.parse throws on garbage; parsed.player throws on
\* null; Object.entries(parsed.npcs) throws when the npcs section is absent,
\* after this.player has been assigned.
DeserializeEffect(player, npcs, flags, map, text) ==
    IF text.kind # "object"
    THEN [player |-> player, npcs |-> npcs, flags |-> flags, currentMap |-> map,
          failed |-> TRUE]
    ELSE IF ~text.npcs.defined
    THEN [player |-> text.player, npcs |-> npcs, flags |-> flags, currentMap |-> map,
          failed |-> TRUE]
    ELSE [player |-> text.player,
          npcs |-> [id \in DOMAIN text.npcs.table |-> OwnNpc(text.npcs.table[id])],
          flags |-> text.flags,
          currentMap |-> text.currentMap,
          failed |-> FALSE]

\* The store deserialize is called on: this one, or one just constructed (a
\* game started anew that loads what this one serialized).
TargetStores ==
    {[player |-> gsPlayer, npcs |-> gsNpcs, flags |-> gsFlags, currentMap |-> gsMap],
     [player |-> [defined |-> TRUE, money |-> DefaultMoney, posRef |-> "default",
                  pos |-> DefaultPosition],
      npcs |-> [id \in NpcIds |-> DefaultNpcRef],
      flags |-> DefaultFlags,
      currentMap |-> "tower"]}

\* target.deserialize(this.serialize())
RoundTrip(target) ==
    DeserializeEffect(target.player, target.npcs, target.flags, target.currentMap,
                      Serialize)

Deserialize(text) ==
    LET r == DeserializeEffect(gsPlayer, gsNpcs, gsFlags, gsMap, text)
    IN  /\ gsPlayer' = r.player
        /\ gsNpcs' = r.npcs
        /\ gsFlags' = r.flags
        /\ gsMap' = r.currentMap
        /\ gsOp' = GSOp("deserialize", "none", FALSE, r.failed, "none")
        /\ UNCHANGED <<defPos, defNpcs, storage>>
    /\ UNCHANGED nonGSVars

\* save(): localStorage.setItem(key, serialize()); emit game:save
Save ==
    /\ storage' = [present |-> TRUE, text |-> Serialize]
    /\ gsOp' = GSOp("save", "none", FALSE, FALSE, "game:save")
    /\ UNCHANGED <<defPos, defNpcs, gsPlayer, gsNpcs, gsFlags, gsMap>>
    /\ UNCHANGED nonGSVars

\* load(): if an item is stored, deserialize it, emit game:load, return true.
Load ==
    /\ IF storage.present
       THEN LET r == DeserializeEffect(gsPlayer, gsNpcs, gsFlags, gsMap, storage.text)
            IN  /\ gsPlayer' = r.player
                /\ gsNpcs' = r.npcs
                /\ gsFlags' = r.flags
                /\ gsMap' = r.currentMap
                /\ gsOp' = GSOp("load", "none", FALSE, r.failed, "game:load")
       ELSE /\ gsOp' = GSOp("load", "none", FALSE, FALSE, "none")
            /\ UNCHANGED <<gsPlayer, gsNpcs, gsFlags, gsMap>>
    /\ UNCHANGED <<defPos, defNpcs, storage>>
    /\ UNCHANGED nonGSVars

\* save() of the JavaScript game kept under public/: it writes its own save
\* data (party, items, settings, stats) under the same localStorage key, a JSON
\* object with none of the four sections of this store.
LegacySave ==
    /\ storage' = [present |-> TRUE, text |-> DropSections(Serialize, Sections)]
    /\ gsOp' = GSOp("legacySave", "none", FALSE, FALSE, "none")
    /\ UNCHANGED <<defPos, defNpcs, gsPlayer, gsNpcs, gsFlags, gsMap>>
    /\ UNCHANGED nonGSVars

\* reset(): the same shallow copies as the constructor.
ResetNpcs(npcs) == [id \in NpcIds |-> DefaultNpcRef]

Reset ==
    /\ gsPlayer' = [defined |-> TRUE, money |-> DefaultMoney, posRef |-> "default",
                    pos |-> DefaultPosition]
    /\ gsNpcs' = ResetNpcs(gsNpcs)
    /\ gsFlags' = DefaultFlags
    /\ gsMap' = "tower"
    /\ gsOp' = GSOp("reset", "none", FALSE, FALSE, "none")
    /\ UNCHANGED <<defPos, defNpcs, storage>>
    /\ UNCHANGED nonGSVars

\* The operations on the store and the events it handles, persistence aside.
GSNext ==
    \/ \E x \in Coordinates : SetPlayerPosition(x, x, "cave")
    \/ AddMoney(RewardMoney)
    \/ \E id \in NpcIds \cup {UnknownNpc} : SetNPCDefeated(id)
    \/ \E id \in NpcIds \cup {UnknownNpc} : OnNpcDefeated(id)
    \/ \E value \in BOOLEAN : SetFlag("firstBattleWon", value)
    \/ \E map \in MapIds : SetCurrentMap(map)
    \/ \E id \in NpcIds \cup {UnknownNpc}, result \in {"win", "lose"},
          moneyGained \in {0, RewardMoney} : OnBattleComplete(id, result, moneyGained)
    \/ DebugToggleNpcDefeated
    \/ \E text \in SampleTexts : Deserialize(text)
    \/ Reset

\* Saving and loading between changes of the store, the key being shared with
\* the JavaScript game.
LoadNext ==
    \/ \E x \in Coordinates : SetPlayerPosition(x, x, "cave")
    \/ AddMoney(RewardMoney)
    \/ \E id \in NpcIds \cup {UnknownNpc} : SetNPCDefeated(id)
    \/ \E value \in BOOLEAN : SetFlag("firstBattleWon", value)
    \/ \E map \in MapIds : SetCurrentMap(map)
    \/ Save
    \/ LegacySave
    \/ Load

\* Persistence together with everything that writes an NPC's defeated flag.
PersistNext ==
    \/ \E id \in NpcIds \cup {UnknownNpc} : SetNPCDefeated(id)
    \/ \E id \in NpcIds \cup {UnknownNpc} : OnNpcDefeated(id)
    \/ \E id \in NpcIds \cup {UnknownNpc}, result \in {"win", "lose"},
          moneyGained \in {0, RewardMoney} : OnBattleComplete(id, result, moneyGained)
    \/ DebugToggleNpcDefeated
    \/ \E text \in SampleTexts : Deserialize(text)
    \/ Save
    \/ Load
    \/ Reset

\* The operations and handled events a game goes through before a reset().
ResetNext ==
    \/ \E x \in Coordinates : SetPlayerPosition(x, x, "cave")
    \/ AddMoney(RewardMoney)
    \/ \E id \in NpcIds \cup {UnknownNpc} : SetNPCDefeated(id)
    \/ \E id \in NpcIds \cup {UnknownNpc} : OnNpcDefeated(id)
    \/ \E value \in BOOLEAN : SetFlag("firstBattleWon", value)
    \/ \E map \in MapIds : SetCurrentMap(map)
    \/ \E id \in NpcIds \cup {UnknownNpc}, result \in {"win", "lose"},
          moneyGained \in {0, RewardMoney} : OnBattleComplete(id, result, moneyGained)
    \/ Reset

GSIdle ==
    /\ defPos = DefaultPosition
    /\ defNpcs = [id \in NpcIds |-> FALSE]
    /\ gsPlayer = [defined |-> TRUE, money |-> DefaultMoney, posRef |-> "default",
                   pos |-> DefaultPosition]
    /\ gsNpcs = [id \in NpcIds |-> DefaultNpcRef]
    /\ gsFlags = DefaultFlags
    /\ gsMap = "tower"
    /\ storage = NoStorage
    /\ gsOp = GSOp("init", "none", FALSE, FALSE, "none")

-----------------------------------------------------------------------------
(* DialogBox *)

\* Characters of a dialogue text.
TextLen == 1

\* A completion callback: what it continues with, and the NPC whose collision
\* registered it (kept to tell encounters apart).
Callback(kind, origin) == [kind |-> kind, origin |-> origin]
NoCallback == Callback("none", "none")

\* new DialogBox(...)
NewDialogBox ==
    [isVisible |-> FALSE, isComplete |-> FALSE, queue |-> 0, callback |-> NoCallback]

Show(d) == [d EXCEPT !.isVisible = TRUE]

\* Faulty variant: hiding drops the pending callback.
HideDiscarding(d) == [d EXCEPT !.isVisible = FALSE, !.callback = NoCallback]

Hide(d) == [d EXCEPT !.isVisible = FALSE]

\* Faulty variant: a pending callback survives the new call.
DisplayTextKeepingCallback(d, n, cb) ==
    [d EXCEPT !.queue = n, !.isComplete = FALSE,
              !.callback = IF @ = NoCallback THEN cb ELSE @]

\* displayText(content, onComplete) with content of n characters
DisplayText(d, n, cb) ==
    [d EXCEPT !.queue = n, !.isComplete = FALSE, !.callback = cb]

\* Faulty variant: the text is revealed but not marked complete.
DisplayTextImmediatelyIncomplete(d) == [d EXCEPT !.queue = 0]

\* displayTextImmediately(content): the callback field is not touched.
DisplayTextImmediately(d) == [d EXCEPT !.queue = 0, !.isComplete = TRUE]

ClearText(d) ==
    [d EXCEPT !.queue = 0, !.isComplete = FALSE, !.callback = NoCallback]

\* reset(): clearText(); hide()
DialogReset(d) == Hide(ClearText(d))

\* Faulty variant: completeText() keeps the callback and update runs on a
\* complete box.
DialogUpdateRefiring(d, k) ==
    IF ~d.isVisible
    THEN [box |-> d, fired |-> NoCallback]
    ELSE IF k >= d.queue
    THEN [box |-> [d EXCEPT !.queue = 0, !.isComplete = TRUE], fired |-> d.callback]
    ELSE [box |-> [d EXCEPT !.queue = @ - k], fired |-> NoCallback]

\* update(deltaTime) with a deltaTime worth k characters: the box after the
\* call and the callback completeText() invoked, if any.
DialogUpdate(d, k) ==
    IF ~d.isVisible \/ d.isComplete
    THEN [box |-> d, fired |-> NoCallback]
    ELSE IF k >= d.queue
    THEN [box |-> [d EXCEPT !.queue = 0, !.isComplete = TRUE, !.callback = NoCallback],
          fired |-> d.callback]
    ELSE [box |-> [d EXCEPT !.queue = @ - k], fired |-> NoCallback]

\* skipToEnd(): the box after the call and the callback completeText() invoked.
SkipToEnd(d) ==
    IF ~d.isComplete /\ d.queue > 0
    THEN [box |-> [d EXCEPT !.queue = 0, !.isComplete = TRUE, !.callback = NoCallback],
          fired |-> d.callback]
    ELSE [box |-> d, fired |-> NoCallback]

\* ---- a DialogBox driven by arbitrary callers ----

\* Longest content handed to the box.
MaxContent == 2
\* Invocations of completion callbacks recorded between two displayText calls.
MaxFired == 2

Alphabet == <<"a", "b", "c", "d">>

\* The contents callers display, the empty one among them.
Contents == {SubSeq(Alphabet, 1, n) : n \in 0..MaxContent}

\* The onComplete arguments callers pass; NoCallback stands for none.
Callbacks == {Callback("cb1", "none"), Callback("cb2", "none"), NoCallback}

\* new DialogBox(...) with its text fields
NewTextBox ==
    [isVisible |-> FALSE, isComplete |-> FALSE, queue |-> 0, callback |-> NoCallback,
     fullText |-> << >>, displayedText |-> << >>]

\* The revealed prefix once the queue holds its last `queue` characters.
Revealed(d) == SubSeq(d.fullText, 1, Len(d.fullText) - d.queue)

TextDisplayText(d, content, cb) ==
    [DisplayText(d, Len(content), cb) EXCEPT !.fullText = content,
                                             !.displayedText = << >>]

TextDisplayTextImmediately(d, content) ==
    [DisplayTextImmediately(d) EXCEPT !.fullText = content,
                                      !.displayedText = content]

TextClearText(d) ==
    [ClearText(d) EXCEPT !.fullText = << >>, !.displayedText = << >>]

TextSkipToEnd(d) ==
    LET u == SkipToEnd(d)
    IN  IF ~d.isComplete /\ d.queue > 0
        THEN [u EXCEPT !.box.displayedText = d.fullText]
        ELSE u

TextUpdate(d, k) ==
    LET u == DialogUpdate(d, k)
    IN  IF ~d.isVisible \/ d.isComplete
        THEN u
        ELSE [u EXCEPT !.box.displayedText = Revealed(u.box)]

\* A reveal is in flight: a displayText has not been completed yet.
InFlight(d) == ~d.isComplete /\ d.callback # NoCallback

\* The history after a call that is not displayText and invoked `fired`.
HistAfter(op, fired) ==
    [dlgHist EXCEPT
        !.op = op,
        !.fired = IF fired = NoCallback THEN @ ELSE Append(@, fired),
        !.onlyUpdates = @ /\ op = "update",
        !.hidInFlight = @ \/ (op = "hide" /\ InFlight(dlg)),
        !.strayed = @ \/ (dlgHist.hidInFlight /\ op \notin {"show", "hide", "update"}),
        !.immInFlight = @ \/ (op = "displayTextImmediately" /\ InFlight(dlg))]

\* The step of a call that leaves box d and invoked callback `fired`.
DlgCommit(op, d, fired) ==
    /\ Len(HistAfter(op, fired).fired) <= MaxFired
    /\ dlg' = d
    /\ dlgHist' = HistAfter(op, fired)
    /\ UNCHANGED nonDlgVars

CallShow ==
    \E d \in {Show(dlg)} : DlgCommit("show", d, NoCallback)

CallHide ==
    \E d \in {Hide(dlg)} : DlgCommit("hide", d, NoCallback)

CallDisplayText ==
    \E content \in Contents, cb \in Callbacks :
        /\ dlg' = TextDisplayText(dlg, content, cb)
        /\ dlgHist' = [op |-> "displayText", fired |-> << >>, session |-> cb,
                       over |-> IF InFlight(dlg) THEN dlg.callback ELSE NoCallback,
                       startVisible |-> dlg.isVisible, onlyUpdates |-> TRUE,
                       hidInFlight |-> FALSE, strayed |-> FALSE,
                       immInFlight |-> FALSE, empty |-> content = << >>]
        /\ UNCHANGED nonDlgVars

CallDisplayTextImmediately ==
    \E content \in Contents :
        \E d \in {TextDisplayTextImmediately(dlg, content)} :
            DlgCommit("displayTextImmediately", d, NoCallback)

CallClearText ==
    \E d \in {TextClearText(dlg)} : DlgCommit("clearText", d, NoCallback)

CallSkipToEnd ==
    \E u \in {TextSkipToEnd(dlg)} : DlgCommit("skipToEnd", u.box, u.fired)

CallUpdate ==
    \E k \in 0..MaxContent :
        \E u \in {TextUpdate(dlg, k)} : DlgCommit("update", u.box, u.fired)

CallReset ==
    \E d \in {Hide(TextClearText(dlg))} : DlgCommit("reset", d, NoCallback)

DlgInit ==
    /\ dlg = NewTextBox
    /\ dlgHist = [op |-> "new", fired |-> << >>, session |-> NoCallback,
                  over |-> NoCallback, startVisible |-> FALSE, onlyUpdates |-> FALSE,
                  hidInFlight |-> FALSE, strayed |-> FALSE, immInFlight |-> FALSE,
                  empty |-> FALSE]

\* No box beside the ones the scenes hold.
DlgIdle == DlgInit

DlgNext ==
    \/ CallShow
    \/ CallHide
    \/ CallDisplayText
    \/ CallDisplayTextImmediately
    \/ CallClearText
    \/ CallSkipToEnd
    \/ CallUpdate
    \/ CallReset

-----------------------------------------------------------------------------
(* The running game: Game, WorldScene, BattleScene, the settings menu *)

\* Pending setTimeout continuations followed at once.
MaxTimers == 1
\* Battles won in one run of the game.
MaxWins == 1
\* Hit points of a pokemon, in units of one ordinary hit.
MaxHp == 2

\* Number of moves of the registry entry BattleScene creates the player's
\* pokemon from: 4 as shipped, fewer after registerPokemon replaced the entry.
MoveCounts == {2, 4}

Keys == {"Escape", "Enter", "1", "2", "3", "4", "5"}

\* keyMoveMap[event.key]; -1 stands for undefined.
KeyMoveMap(key) ==
    CASE key = "1" -> 0 [] key = "2" -> 1 [] key = "3" -> 2 [] key = "4" -> 3
      [] OTHER -> -1

\* The surroundings of a run: every key and both NPCs, one delayed
\* continuation pending at a time.
WholeEnv == [keys |-> Keys, near |-> NpcIds, timers |-> MaxTimers]

\* The surroundings of a run with overlapping continuations: Enter and two
\* move keys, both NPCs, one more continuation pending at a time.
OverlapEnv ==
    [keys |-> {"Enter", "1", "2"}, near |-> NpcIds, timers |-> MaxTimers + 1]

\* The surroundings of a run in which the player uses Enter, Escape and the
\* first move key.
LiveEnv ==
    [keys |-> {"Enter", "Escape", "1"}, near |-> NpcIds, timers |-> MaxTimers]

\* Where the cursor of the settings menu is when a key reaches it.
MenuPositions == {"main:EXIT", "debug:TOGGLE NPC DEFEATED", "other"}

\* The scenes initScenes registers: WorldScene and BattleScene define onEnter,
\* no scene defines onExit.
GameScenes ==
    [menu   |-> [defined |-> TRUE, hasOnEnter |-> FALSE, hasOnExit |-> FALSE],
     world  |-> [defined |-> TRUE, hasOnEnter |-> TRUE, hasOnExit |-> FALSE],
     battle |-> [defined |-> TRUE, hasOnEnter |-> TRUE, hasOnExit |-> FALSE]]

Event(type, npcId, origin, result) ==
    [type |-> type, npcId |-> npcId, origin |-> origin, result |-> result]

Timer(kind, delay, origin) ==
    [kind |-> kind, left |-> delay, delay |-> delay, origin |-> origin]

\* The objects a handler works on, as one value handlers map to the next.
Cur ==
    [world |-> world, battle |-> battle, timers |-> timers, menuOpen |-> menuOpen,
     current |-> smCurrent, player |-> gsPlayer, npcs |-> gsNpcs,
     defaults |-> defNpcs, flags |-> gsFlags,
     emitted |-> << >>, trace |-> << >>, collided |-> << >>, completed |-> "none",
     reentered |-> FALSE]

\* eventBus.emit as far as the log goes; handlers are applied by the emitter.
Emit(g, e) == [g EXCEPT !.emitted = Append(@, e)]

\* setTimeout(resolve, delay) followed by the rest of the async function
AddTimer(g, kind, delay, origin) ==
    [g EXCEPT !.timers = Append(@, Timer(kind, delay, origin))]

\* ---- WorldScene ----

WorldReset(g) ==
    [g EXCEPT !.world.frozen = FALSE,
              !.world.dialogBox = DialogReset(@),
              !.world.isInDialogue = FALSE,
              !.world.isFlashing = FALSE]

WorldOnEnter(g) == WorldReset(g)

\* setup(): player and NPCs go to their spawn points.
WorldSetup(g) == [g EXCEPT !.world.touching = {}]

\* Faulty variant: the pre-battle dialogue whether the NPC is defeated or not.
CheckNpcInteractionAlwaysBattle(g, npcId) ==
    IF npcId \notin g.world.touching
    THEN g
    ELSE LET defeated == NpcObjDefeated(g.npcs, g.defaults, npcId)
             h == [g EXCEPT !.world.currentNpcId = npcId,
                            !.collided = Append(@, [id |-> npcId,
                                                     defeated |-> defeated])]
         IN  [h EXCEPT !.world.frozen = TRUE,
                       !.world.isInDialogue = TRUE,
                       !.world.dialogBox =
                           DisplayText(Show(@), TextLen,
                                       Callback("battle-transition", npcId))]

\* checkNpcInteraction(npc, npcId)
CheckNpcInteraction(g, npcId) ==
    IF npcId \notin g.world.touching
    THEN g
    ELSE LET defeated == NpcObjDefeated(g.npcs, g.defaults, npcId)
             h == [g EXCEPT !.world.currentNpcId = npcId,
                            !.collided = Append(@, [id |-> npcId,
                                                     defeated |-> defeated])]
         IN  IF ~defeated
             THEN [h EXCEPT !.world.frozen = TRUE,
                            !.world.isInDialogue = TRUE,
                            !.world.dialogBox =
                                DisplayText(Show(@), TextLen,
                                            Callback("battle-transition", npcId))]
             ELSE [h EXCEPT !.world.dialogBox = DisplayTextImmediately(Show(@))]

\* Faulty variant of handleNpcCollision, used to test the claims below: no
\* guard.
HandleNpcCollisionUnguarded(g) ==
    CheckNpcInteraction(CheckNpcInteraction(g, "gentleman_01"), "gentleman_02")

\* handleNpcCollision(): skipped while the player is frozen in a dialogue.
HandleNpcCollision(g) ==
    IF g.world.frozen /\ g.world.isInDialogue
    THEN g
    ELSE CheckNpcInteraction(CheckNpcInteraction(g, "gentleman_01"), "gentleman_02")

\* onKeyPressed(event)
WorldKeyPressed(g, key) ==
    IF g.world.isInDialogue /\ key = "Enter"
    THEN [g EXCEPT !.world.dialogBox = Hide(@),
                   !.world.isInDialogue = FALSE,
                   !.world.frozen = FALSE]
    ELSE g

\* ---- BattleScene ----

\* What has happened in a battle so far: whose turn is running, the calls of
\* its attack handler and its damage applications, the side that applied
\* damage last, the damage applications and battle:complete emissions in all.
NoBattleLog ==
    [turn |-> "none", runs |-> 0, hits |-> 0, lastHit |-> "none", hitCount |-> 0,
     completes |-> 0]

\* A turn of `side` begins.
TurnOf(log, side) == [log EXCEPT !.turn = side, !.runs = 0, !.hits = 0]

\* The attack handler of `side` is called.
HandlerRun(log, side) ==
    IF log.turn = side THEN [log EXCEPT !.runs = @ + 1] ELSE [log EXCEPT !.runs = 2]

\* `side` applies damage.
HitBy(log, side) ==
    [log EXCEPT !.hits = IF log.turn = side THEN @ + 1 ELSE 2,
                !.lastHit = side,
                !.hitCount = @ + 1]

\* Faulty variant of reset(), used to test the claims below: the NPC's pokemon
\* is not restored.
BattleResetKeepingNpcPokemon(g) ==
    [g EXCEPT !.battle.currentState = "default",
              !.battle.selectedMoveIndex = -1,
              !.battle.playerHp = MaxHp,
              !.battle.slid = FALSE,
              !.battle.dialogBox = DialogReset(@),
              !.battle.log = NoBattleLog]

\* reset(): a battle starts afresh.  `slid` says that some slide position
\* differs from its initial value.
BattleReset(g) ==
    [g EXCEPT !.battle.currentState = "default",
              !.battle.selectedMoveIndex = -1,
              !.battle.playerHp = MaxHp,
              !.battle.npcHp = MaxHp,
              !.battle.slid = FALSE,
              !.battle.dialogBox = DialogReset(@),
              !.battle.log = NoBattleLog]

\* Faulty variant of setup, used to test the claims below: it asks for a scene
\* transition while the manager is still entering the scene.
BattleSetupLeaving(g) ==
    Emit([g EXCEPT !.battle.dialogBox =
                       DisplayText(Show(@), TextLen, Callback("intro", "none"))],
         Event("scene:transition", "none", "none", "world"))

\* setup(): startBattleIntro()
BattleSetup(g) ==
    [g EXCEPT !.battle.dialogBox =
                  DisplayText(Show(@), TextLen, Callback("intro", "none"))]

BattleOnEnter(g, data) ==
    LET h == BattleSetup(BattleReset(g))
    IN  IF data # NoData THEN [h EXCEPT !.battle.currentNpcId = data] ELSE h

\* Damage of the move at index i in units of MaxHp: the first move of the
\* registry entry (power 1000) fells the target, any other takes one unit,
\* an index without a move does nothing (performAttack returns null).
Damage(moves, i) ==
    IF i < 0 \/ i >= moves THEN 0 ELSE IF i = 0 THEN MaxHp ELSE 1

\* Faulty variant of takeDamage, used to test the claims below: no clamp at 0.
TakeDamageUnclamped(hp, amount) == hp - amount

\* takeDamage(amount): this.currentHp = Math.max(0, this.currentHp - amount)
TakeDamage(hp, amount) == IF hp - amount < 0 THEN 0 ELSE hp - amount

\* showMoveSelection(), called from draw()
ShowMoveSelection(g) ==
    IF g.battle.currentState = "player-turn" /\ g.battle.selectedMoveIndex = -1
    THEN [g EXCEPT !.battle.dialogBox = DisplayTextImmediately(@)]
    ELSE g

\* handlePlayerAttack(): returns early when the selected index has no move.
HandlePlayerAttack(g) ==
    IF g.battle.selectedMoveIndex < 0
       \/ g.battle.selectedMoveIndex >= g.battle.moves
    THEN g
    ELSE [g EXCEPT !.battle.dialogBox =
                       DisplayText(ClearText(@), TextLen,
                                   Callback("player-attack", "none"))]

\* handleNpcAttack(): the NPC's pokemon has a move at every index it draws.
HandleNpcAttack(g) ==
    [g EXCEPT !.battle.dialogBox =
                  DisplayText(ClearText(@), TextLen, Callback("npc-attack", "none"))]

HandleBattleEnd(g) ==
    IF g.battle.npcHp = 0
    THEN [g EXCEPT !.battle.dialogBox =
                       DisplayText(ClearText(@), TextLen, Callback("won", "none")),
                   !.battle.currentState = "winner-declared"]
    ELSE IF g.battle.playerHp = 0
    THEN [g EXCEPT !.battle.dialogBox =
                       DisplayText(ClearText(@), TextLen, Callback("lost", "none")),
                   !.battle.currentState = "winner-declared"]
    ELSE g

\* handleStateTransitions(), called from draw(): three ifs in a row.
HandleStateTransitions(g) ==
    LET g1 == IF g.battle.currentState = "player-attack"
              THEN [HandlePlayerAttack(g) EXCEPT
                        !.battle.currentState = "processing",
                        !.battle.log = HandlerRun(@, "player")]
              ELSE g
        g2 == IF g1.battle.currentState = "npc-turn"
              THEN [HandleNpcAttack(g1) EXCEPT
                        !.battle.currentState = "processing",
                        !.battle.log = HandlerRun(@, "npc")]
              ELSE g1
    IN  IF g2.battle.currentState = "battle-end" THEN HandleBattleEnd(g2) ELSE g2

\* onKeyPressed(event)
BattleKeyPressed(g, key) ==
    IF g.battle.currentState # "player-turn" \/ KeyMoveMap(key) = -1
    THEN g
    ELSE [g EXCEPT !.battle.selectedMoveIndex = KeyMoveMap(key),
                   !.battle.currentState = "player-attack",
                   !.battle.log = TurnOf(@, "player")]

\* ---- SceneManager and the event handlers of GameState ----

\* One call of setScene applied to the scene it is made on.
RunStep(g, c) ==
    CASE c.op = "onEnter" /\ c.scene = "world" -> WorldOnEnter(g)
      [] c.op = "onEnter" /\ c.scene = "battle" -> BattleOnEnter(g, c.arg)
      [] c.op = "reset" /\ c.scene = "world" -> WorldReset(g)
      [] c.op = "reset" /\ c.scene = "battle" -> BattleReset(g)
      [] c.op = "setup" /\ c.scene = "world" -> WorldSetup(g)
      [] c.op = "setup" /\ c.scene = "battle" -> BattleSetup(g)
      [] c.op = "switch" -> [g EXCEPT !.current = c.scene]
      [] c.op = "emit:scene:changed" ->
            Emit(g, Event("scene:changed", "none", "none", c.scene))
      [] OTHER -> g

RECURSIVE RunSteps(_, _)
RunSteps(g, steps) ==
    IF steps = << >> THEN g ELSE RunSteps(RunStep(g, Head(steps)), Tail(steps))

\* sceneManager.setScene(name, data).  `reentered` records that something run
\* by the call itself began another setScene or emitted scene:transition
\* before the call emitted its scene:changed.
GameSetScene(g, name, data) ==
    LET steps == SetSceneSteps(GameScenes, g.current, name, data)
        r == RunSteps(g, steps)
        during == SubSeq(r.emitted, Len(g.emitted) + 1, Len(r.emitted))
        IsTransition(e) == e.type = "scene:transition"
        IsChanged(e) == e.type = "scene:changed"
    IN  [r EXCEPT !.trace = g.trace \o steps,
                  !.reentered = \/ @
                                \/ r.trace # g.trace
                                \/ SelectSeq(during, IsTransition) # << >>
                                \/ Len(SelectSeq(during, IsChanged)) > 1]

\* emitGameEvent('scene:transition', {to, context}): SceneManager's listener
EmitSceneTransition(g, to, context) ==
    GameSetScene(Emit(g, Event("scene:transition", context, "none", to)), to, context)

\* emitGameEvent('battle:complete', {npcId, result, moneyGained}): GameState's
\* listener
EmitBattleComplete(g, npcId, result, moneyGained) ==
    LET r == BattleCompleteEffect(g.player, g.npcs, g.defaults, g.flags, npcId,
                                  result, moneyGained)
    IN  [Emit(g, Event("battle:complete", npcId, "none", result))
            EXCEPT !.player = r.player, !.npcs = r.npcs, !.defaults = r.defaults,
                   !.flags = r.flags]

\* ---- completion callbacks and timer continuations ----

\* A completion callback, up to its first await.
RunCallback(g, cb) ==
    CASE cb.kind = "battle-transition" -> AddTimer(g, "flash", 1, cb.origin)
      [] cb.kind = "intro" -> AddTimer(g, "intro-npc", 2, "none")
      [] cb.kind = "intro-npc" ->
            AddTimer([g EXCEPT !.battle.currentState = "intro-npc-pokemon"],
                     "intro-npc-pokemon", 1, "none")
      [] cb.kind = "intro-npc-pokemon" ->
            AddTimer([g EXCEPT !.battle.currentState = "intro-player-pokemon"],
                     "intro-player-pokemon", 1, "none")
      [] cb.kind = "intro-player-pokemon" -> AddTimer(g, "player-turn", 1, "none")
      [] cb.kind = "player-attack" ->
            LET hp == TakeDamage(g.battle.npcHp,
                                 Damage(g.battle.moves, g.battle.selectedMoveIndex))
                h == [g EXCEPT !.battle.npcHp = hp,
                               !.battle.log = HitBy(@, "player")]
            IN  IF hp = 0
                THEN [h EXCEPT !.battle.currentState = "battle-end"]
                ELSE AddTimer(h, "npc-turn", 1, "none")
      [] cb.kind = "npc-attack" ->
            LET hp == TakeDamage(g.battle.playerHp, 1)
                h == [g EXCEPT !.battle.playerHp = hp,
                               !.battle.log = HitBy(@, "npc")]
            IN  IF hp = 0
                THEN [h EXCEPT !.battle.currentState = "battle-end"]
                ELSE AddTimer(h, "player-turn-again", 1, "none")
      [] cb.kind = "won" ->
            AddTimer([EmitBattleComplete(g, g.battle.currentNpcId, "win", RewardMoney)
                          EXCEPT !.battle.dialogBox = Hide(@),
                                 !.battle.log.completes = @ + 1],
                     "go-to-world", 2, "none")
      [] cb.kind = "lost" ->
            AddTimer([EmitBattleComplete(g, g.battle.currentNpcId, "lose", 0)
                          EXCEPT !.battle.dialogBox = Hide(@),
                                 !.battle.log.completes = @ + 1],
                     "go-to-world", 2, "none")
      [] OTHER -> g

\* Faulty variant: the event goes out twice.
BattleStartTwice(g, t) ==
    LET h == [g EXCEPT !.world.isFlashing = FALSE]
        npcId == h.world.currentNpcId
        e == Event("battle:start", npcId, t.origin, "none")
    IN  EmitSceneTransition(Emit(Emit(h, e), e), "battle", npcId)

\* The end of startBattleTransition: battle:start and scene:transition carry
\* this.currentNpcId as it is when the second delay has elapsed.
BattleStart(g, t) ==
    LET h == [g EXCEPT !.world.isFlashing = FALSE]
        npcId == h.world.currentNpcId
    IN  EmitSceneTransition(Emit(h, Event("battle:start", npcId, t.origin, "none")),
                            "battle", npcId)

\* What an async function does once the delay it awaits has elapsed.
Continue(g, t) ==
    CASE t.kind = "flash" ->
            AddTimer([g EXCEPT !.world.dialogBox = Hide(@), !.world.isFlashing = TRUE],
                     "battle-start", 1, t.origin)
      [] t.kind = "battle-start" -> BattleStart(g, t)
      [] t.kind = "intro-npc" ->
            [g EXCEPT !.battle.currentState = "intro-npc",
                      !.battle.dialogBox =
                          DisplayText(ClearText(@), TextLen,
                                      Callback("intro-npc", "none"))]
      [] t.kind = "intro-npc-pokemon" ->
            [g EXCEPT !.battle.dialogBox =
                          DisplayText(ClearText(@), TextLen,
                                      Callback("intro-npc-pokemon", "none"))]
      [] t.kind = "intro-player-pokemon" ->
            [g EXCEPT !.battle.dialogBox =
                          DisplayText(ClearText(@), TextLen,
                                      Callback("intro-player-pokemon", "none"))]
      [] t.kind = "player-turn" -> [g EXCEPT !.battle.currentState = "player-turn"]
      [] t.kind = "npc-turn" ->
            [g EXCEPT !.battle.dialogBox = ClearText(@),
                      !.battle.currentState = "npc-turn",
                      !.battle.log = TurnOf(@, "npc")]
      [] t.kind = "player-turn-again" ->
            [g EXCEPT !.battle.selectedMoveIndex = -1,
                      !.battle.currentState = "player-turn"]
      [] t.kind = "go-to-world" -> GameSetScene(g, "world", NoData)
      [] OTHER -> g

\* ---- one frame ----

\* WorldScene.update(deltaTime): the player moves unless frozen, the dialogue
\* advances, then the collision check runs.
WorldUpdate(g, k, moved) ==
    LET g1 == IF g.world.frozen THEN g ELSE [g EXCEPT !.world.touching = moved]
        u  == DialogUpdate(g1.world.dialogBox, k)
        g2 == [g1 EXCEPT !.world.dialogBox = u.box]
        g3 == IF u.fired.kind # "none"
              THEN [RunCallback(g2, u.fired) EXCEPT !.completed = u.fired.origin]
              ELSE g2
    IN  HandleNpcCollision(g3)

\* updateAnimations(deltaTime): the sprites slide in during the intro states
\* and a fainted pokemon sinks.
UpdateAnimations(g) ==
    IF \/ g.battle.currentState \in
             {"intro-npc", "intro-npc-pokemon", "intro-player-pokemon"}
       \/ g.battle.playerHp = 0
       \/ g.battle.npcHp = 0
    THEN [g EXCEPT !.battle.slid = TRUE]
    ELSE g

\* BattleScene.update(deltaTime) and draw()
BattleFrame(g, k) ==
    LET g0 == UpdateAnimations(g)
        u  == DialogUpdate(g0.battle.dialogBox, k)
        g1 == [g0 EXCEPT !.battle.dialogBox = u.box]
        g2 == IF u.fired.kind # "none" THEN RunCallback(g1, u.fired) ELSE g1
    IN  HandleStateTransitions(ShowMoveSelection(g2))

\* p.draw: sceneManager.update(deltaTime); sceneManager.draw()
Frame(g, k, moved) ==
    CASE g.current = "world" -> WorldUpdate(g, k, moved)
      [] g.current = "battle" -> BattleFrame(g, k)
      [] OTHER -> g

\* ---- keys ----

\* settingsMenu.open() / close(): both reach the player through setPlayerFreeze.
MenuOpen(g) == [g EXCEPT !.menuOpen = TRUE, !.world.frozen = TRUE]

MenuClose(g) == [g EXCEPT !.menuOpen = FALSE, !.world.frozen = FALSE]

\* settingsMenu.onKeyPressed(event) with the cursor at `position`
MenuKeyPressed(g, key, position) ==
    CASE key = "Escape" /\ position = "main:EXIT" -> MenuClose(g)
      [] key = "Enter" /\ position = "main:EXIT" -> MenuClose(g)
      [] key = "Enter" /\ position = "debug:TOGGLE NPC DEFEATED" ->
            LET r == MarkDefeatedToggling(g.npcs, g.defaults, "gentleman_01")
            IN  [g EXCEPT !.npcs = r.npcs, !.defaults = r.defaults]
      [] OTHER -> g

\* Game.keyPressed(event)
GameKeyPressed(g, key, position) ==
    IF key = "Escape" /\ g.current = "world"
    THEN IF g.menuOpen THEN MenuClose(g) ELSE MenuOpen(g)
    ELSE IF g.menuOpen
    THEN MenuKeyPressed(g, key, position)
    ELSE CASE g.current = "menu" ->
                IF key = "Enter" THEN EmitSceneTransition(g, "world", NoData) ELSE g
           [] g.current = "world" -> WorldKeyPressed(g, key)
           [] g.current = "battle" -> BattleKeyPressed(g, key)
           [] OTHER -> g

\* ---- actions ----

\* The last step: its kind, the NPC whose pre-battle text it completed, the
\* collisions its collision check handled, and whether a setScene call it made
\* was re-entered.
GMOp(kind, g) ==
    [kind |-> kind, completed |-> g.completed, collided |-> g.collided,
     reentered |-> g.reentered]

\* What the model follows: a bounded number of pending timers and of won
\* battles.
Admissible(g) ==
    /\ Len(g.timers) <= gmEnv.timers
    /\ g.player.money <= DefaultMoney + MaxWins * RewardMoney

\* The step to the state the handler leaves.
Commit(g, kind) ==
    /\ Admissible(g)
    /\ world' = g.world
    /\ battle' = g.battle
    /\ timers' = g.timers
    /\ menuOpen' = g.menuOpen
    /\ emitted' = g.emitted
    /\ gmOp' = GMOp(kind, g)
    /\ gmEnv' = gmEnv
    /\ smCurrent' = g.current
    /\ smTrace' = g.trace
    /\ gsPlayer' = g.player
    /\ gsNpcs' = g.npcs
    /\ defNpcs' = g.defaults
    /\ gsFlags' = g.flags
    /\ UNCHANGED <<smScenes, smOp, defPos, gsMap, storage, gsOp, dlgVars, pkVars,
                   busVars, rvVars>>

\* One frame of the p5 loop, with a deltaTime worth k characters and the set
\* of NPCs the player's rectangle meets after moving.
Tick ==
    \E k \in 1..TextLen,
       moved \in (IF smCurrent = "world" /\ ~world.frozen
                  THEN SUBSET gmEnv.near ELSE {world.touching}) :
        Commit(Frame(Cur, k, moved), "tick")

\* p.keyPressed with the given key, the menu cursor being at `position`.
KeyStep(key, position) == Commit(GameKeyPressed(Cur, key, position), "key")

KeyPressed ==
    \E key \in gmEnv.keys,
       position \in (IF menuOpen THEN MenuPositions ELSE {"other"}) :
        KeyStep(key, position)

\* The game after timer i has fired and its continuation has run.
Fired(i) ==
    LET rest == [j \in 1..(Len(timers) - 1) |->
                    IF j < i THEN timers[j] ELSE timers[j + 1]]
    IN  Continue([Cur EXCEPT !.timers = rest], timers[i])

\* Timer i is due.  Of two timers set for the same delay the one set first
\* fires first.
CanFire(i) ==
    /\ timers[i].left = 0
    /\ \A j \in 1..(i - 1) :
          ~(timers[j].left = 0 /\ timers[j].delay <= timers[i].delay)
    /\ Admissible(Fired(i))

\* A timer whose delay has elapsed fires.
FireTimer ==
    \E i \in DOMAIN timers : CanFire(i) /\ Commit(Fired(i), "timer")

\* The game a second later.
Elapsed ==
    [Cur EXCEPT !.timers = [i \in DOMAIN timers |-> [timers[i] EXCEPT !.left = @ - 1]]]

CanElapse ==
    /\ timers # << >>
    /\ \A i \in DOMAIN timers : timers[i].left > 0

\* A second passes with no timer due.
Elapse == CanElapse /\ Commit(Elapsed, "elapse")

\* initScenes(): the three scenes are registered and set up, menu is current.
GMInit ==
    /\ world = [frozen |-> FALSE, isInDialogue |-> FALSE, isFlashing |-> FALSE,
                currentNpcId |-> "gentleman_01", dialogBox |-> NewDialogBox,
                touching |-> {}]
    /\ \E moves \in MoveCounts :
          battle = [currentState |-> "default", selectedMoveIndex |-> -1,
                    currentNpcId |-> "", playerHp |-> MaxHp, npcHp |-> MaxHp,
                    slid |-> FALSE,
                    dialogBox |-> DisplayText(Show(NewDialogBox), TextLen,
                                              Callback("intro", "none")),
                    moves |-> moves, log |-> NoBattleLog]
    /\ timers = << >>
    /\ menuOpen = FALSE
    /\ emitted = << >>
    /\ gmOp = [kind |-> "init", completed |-> "none", collided |-> << >>,
               reentered |-> FALSE]
    /\ gmEnv = WholeEnv

\* initScenes() in a run where the player leaves the settings menu alone and
\* lets a second transition start while one is pending.
GMInitOverlap ==
    /\ world = [frozen |-> FALSE, isInDialogue |-> FALSE, isFlashing |-> FALSE,
                currentNpcId |-> "gentleman_01", dialogBox |-> NewDialogBox,
                touching |-> {}]
    /\ battle = [currentState |-> "default", selectedMoveIndex |-> -1,
                 currentNpcId |-> "", playerHp |-> MaxHp, npcHp |-> MaxHp,
                 slid |-> FALSE,
                 dialogBox |-> DisplayText(Show(NewDialogBox), TextLen,
                                           Callback("intro", "none")),
                 moves |-> 4, log |-> NoBattleLog]
    /\ timers = << >>
    /\ menuOpen = FALSE
    /\ emitted = << >>
    /\ gmOp = [kind |-> "init", completed |-> "none", collided |-> << >>,
               reentered |-> FALSE]
    /\ gmEnv = OverlapEnv

\* initScenes() in a run where the player uses Enter, Escape and the first
\* move key.
GMInitLive ==
    /\ world = [frozen |-> FALSE, isInDialogue |-> FALSE, isFlashing |-> FALSE,
                currentNpcId |-> "gentleman_01", dialogBox |-> NewDialogBox,
                touching |-> {}]
    /\ battle = [currentState |-> "default", selectedMoveIndex |-> -1,
                 currentNpcId |-> "", playerHp |-> MaxHp, npcHp |-> MaxHp,
                 slid |-> FALSE,
                 dialogBox |-> DisplayText(Show(NewDialogBox), TextLen,
                                           Callback("intro", "none")),
                 moves |-> 4, log |-> NoBattleLog]
    /\ timers = << >>
    /\ menuOpen = FALSE
    /\ emitted = << >>
    /\ gmOp = [kind |-> "init", completed |-> "none", collided |-> << >>,
               reentered |-> FALSE]
    /\ gmEnv = LiveEnv

GMIdle ==
    /\ world = [frozen |-> FALSE, isInDialogue |-> FALSE, isFlashing |-> FALSE,
                currentNpcId |-> "gentleman_01", dialogBox |-> NewDialogBox,
                touching |-> {}]
    /\ battle = [currentState |-> "default", selectedMoveIndex |-> -1,
                 currentNpcId |-> "", playerHp |-> MaxHp, npcHp |-> MaxHp,
                 slid |-> FALSE,
                 dialogBox |-> DisplayText(Show(NewDialogBox), TextLen,
                                           Callback("intro", "none")),
                 moves |-> 4, log |-> NoBattleLog]
    /\ timers = << >>
    /\ menuOpen = FALSE
    /\ emitted = << >>
    /\ gmOp = [kind |-> "init", completed |-> "none", collided |-> << >>,
               reentered |-> FALSE]
    /\ gmEnv = WholeEnv

GameNext ==
    \/ Tick
    \/ KeyPressed
    \/ FireTimer
    \/ Elapse

-----------------------------------------------------------------------------
(* Pokemon (src/src/entities/Entity.ts) *)

\* PokemonRegistry: level, stats and the powers of the moves, by key.
PokemonRegistry ==
    [BLASTOISE |-> [level |-> 50, maxHp |-> 100, attack |-> 83, defense |-> 100,
                    powers |-> <<1000, 50, 45, 50>>],
     VENUSAUR  |-> [level |-> 50, maxHp |-> 100, attack |-> 82, defense |-> 83,
                    powers |-> <<10, 55, 45, 50>>],
     CHARIZARD |-> [level |-> 50, maxHp |-> 100, attack |-> 84, defense |-> 78,
                    powers |-> <<55, 60, 45, 40>>]]

PokemonKeys == DOMAIN PokemonRegistry

\* 0.85 + Math.random() * 0.15, in hundredths: the least value, values in
\* between and the greatest.
RandomFactors == {85, 90, 95, 99}

\* The amounts callers pass to takeDamage and heal directly.
Amounts == {0, 1, 7, 30, 100, 250}

\* Move indices callers pass to performAttack; the last has no move.
MoveIndices == 0..4

\* calculateDamage(target, move) of `attacker`, the random factor being r
\* hundredths: floor(((2 * level / 5 + 2) * power * (attack / defense) / 50 + 2)
\* * r / 100), over one common denominator.
CalculateDamage(attacker, target, power, r) ==
    LET a == PokemonRegistry[attacker]
        t == PokemonRegistry[target]
    IN  (((2 * a.level + 10) * power * a.attack + 500 * t.defense) * r)
            \div (25000 * t.defense)

\* new Pokemon(PokemonRegistry[key])
NewPokemon(key) ==
    [key |-> key, currentHp |-> PokemonRegistry[key].maxHp, isFainted |-> FALSE]

MaxHpOf(p) == PokemonRegistry[p.key].maxHp

\* takeDamage(amount)
PokemonTakeDamage(p, amount) ==
    LET hp == TakeDamage(p.currentHp, amount)
    IN  [p EXCEPT !.currentHp = hp, !.isFainted = IF hp <= 0 THEN TRUE ELSE @]

\* attacker.performAttack(p, moveIndex): the damage dealt, -1 standing for
\* null when the attacker has no move at the index.
DamageDealt(attacker, p, moveIndex, r) ==
    LET powers == PokemonRegistry[attacker].powers
    IN  IF moveIndex + 1 \in DOMAIN powers
        THEN CalculateDamage(attacker, p.key, powers[moveIndex + 1], r)
        ELSE -1

PerformAttack(attacker, p, moveIndex, r) ==
    LET damage == DamageDealt(attacker, p, moveIndex, r)
    IN  IF damage = -1 THEN p ELSE PokemonTakeDamage(p, damage)

\* heal(amount)
Heal(p, amount) ==
    [p EXCEPT !.currentHp =
                  IF @ + amount > MaxHpOf(p) THEN MaxHpOf(p) ELSE @ + amount]

\* fullRestore()
FullRestore(p) == [p EXCEPT !.currentHp = MaxHpOf(p), !.isFainted = FALSE]

\* reset()
PokemonReset(p) == FullRestore(p)

PkCommit(kind, amount, p) ==
    /\ pk' = p
    /\ pkOp' = [kind |-> kind, amount |-> amount, before |-> pk.currentHp]
    /\ UNCHANGED nonPkVars

CallPerformAttack ==
    \E attacker \in PokemonKeys, moveIndex \in MoveIndices, r \in RandomFactors :
        \E p \in {PerformAttack(attacker, pk, moveIndex, r)} :
            PkCommit("performAttack", DamageDealt(attacker, pk, moveIndex, r), p)

CallTakeDamage ==
    \E amount \in Amounts :
        \E p \in {PokemonTakeDamage(pk, amount)} : PkCommit("takeDamage", amount, p)

CallHeal ==
    \E amount \in Amounts :
        \E p \in {Heal(pk, amount)} : PkCommit("heal", amount, p)

CallFullRestore ==
    \E p \in {FullRestore(pk)} : PkCommit("fullRestore", 0, p)

CallPokemonReset ==
    \E p \in {PokemonReset(pk)} : PkCommit("reset", 0, p)

\* createPokemon(key)
PkInit ==
    /\ \E key \in PokemonKeys : pk = NewPokemon(key)
    /\ pkOp = [kind |-> "new", amount |-> 0, before |-> MaxHpOf(pk)]

\* A pokemon nobody calls.
PkIdle ==
    /\ pk = NewPokemon("BLASTOISE")
    /\ pkOp = [kind |-> "new", amount |-> 0, before |-> MaxHpOf(pk)]

PkNext ==
    \/ CallPerformAttack
    \/ CallTakeDamage
    \/ CallHeal
    \/ CallFullRestore
    \/ CallPokemonReset

-----------------------------------------------------------------------------
(* EventBus (src/unnamed/part_009) *)

\* Calls of on() and once() in one run.
MaxRegs == 3

Events == {"e1", "e2"}

\* What a subscriber does when it is called: it returns, it throws, or it
\* emits the event it was called for (once per delivery, then it returns).
Handlers == {"returns", "throws", "emits"}

\* A member of a listener Set: the function passed to on(), or the wrapper
\* once() made for it.  n is the rank of the call that added it: a Set keeps
\* insertion order.
Entry(n, fn, once) == [n |-> n, fn |-> fn, once |-> once]

\* new EventBus(); `seen` counts the calls of each registration's function
\* (2 stands for two or more), `onces` holds the registrations made by once().
NewBus ==
    [listeners |-> [e \in Events |-> {}], next |-> 1,
     seen |-> [n \in 1..MaxRegs |-> 0], onces |-> {}]

\* callbacks.delete(callback); an empty Set is dropped from the map.
Off(listeners, e, x) == [listeners EXCEPT ![e] = @ \ {x}]

\* Faulty variant of the wrapper of once(), used to test the claims below: it
\* does not unsubscribe.
UnsubscribedNever(d, e, x) == d

\* wrappedCallback of once(): this.off(event, wrappedCallback) comes before
\* callback(data).  A function added by on() stays.
Unsubscribed(d, e, x) ==
    IF x.once THEN [d EXCEPT !.listeners = Off(@, e, x)] ELSE d

\* Faulty variant of the catch clause: the error goes on.
CaughtNot(d) == d

\* catch (error) { console.error(...) }
Caught(d) == [d EXCEPT !.threw = FALSE, !.errors = @ + 1]

RECURSIVE Deliver(_, _, _), Invoke(_, _, _)

\* callback(data) for the member x of the Set of event e.
Invoke(d, e, x) ==
    LET d1 == Unsubscribed([d EXCEPT !.calls = Append(@, x.n),
                                     !.seen[x.n] = IF @ < 2 THEN @ + 1 ELSE 2],
                           e, x)
    IN  CASE x.fn = "throws" -> [d1 EXCEPT !.threw = TRUE]
          [] x.fn = "emits" /\ x.n \notin d1.emitters ->
                Deliver([d1 EXCEPT !.emitters = @ \cup {x.n}, !.nested = TRUE], e, 0)
          [] OTHER -> d1

\* callbacks.forEach(...) from the member after rank `last`: members are
\* visited in insertion order, a member deleted before its turn is not
\* visited, and an error that is not caught ends the loop.
Deliver(d, e, last) ==
    LET rest == {x \in d.listeners[e] : x.n > last}
    IN  IF rest = {}
        THEN d
        ELSE LET x == CHOOSE y \in rest : \A z \in rest : y.n <= z.n
                 r == Invoke(d, e, x)
                 c == IF r.threw THEN Caught(r) ELSE r
             IN  IF c.threw THEN c ELSE Deliver(c, e, x.n)

\* emit(event, data)
BusEmit(b, e) ==
    Deliver([listeners |-> b.listeners, seen |-> b.seen, calls |-> << >>,
             emitters |-> {}, errors |-> 0, threw |-> FALSE, nested |-> FALSE],
            e, 0)

BusOp(kind, e, before, d) ==
    [kind |-> kind, event |-> e, before |-> before, calls |-> d.calls,
     errors |-> d.errors, threw |-> d.threw, nested |-> d.nested]

NoDelivery ==
    [calls |-> << >>, errors |-> 0, threw |-> FALSE, nested |-> FALSE]

\* on(event, callback): adding a function the Set holds already changes
\* nothing.
CallOn ==
    \E e \in Events, fn \in Handlers :
        /\ bus.next <= MaxRegs
        /\ bus' = IF \E x \in bus.listeners[e] : x.fn = fn /\ ~x.once
                  THEN bus
                  ELSE [bus EXCEPT !.listeners[e] = @ \cup {Entry(bus.next, fn, FALSE)},
                                   !.next = @ + 1]
        /\ busOp' = BusOp("on", e, bus.listeners[e], NoDelivery)
        /\ UNCHANGED nonBusVars

\* once(event, callback): a new wrapper each time.
CallOnce ==
    \E e \in Events, fn \in Handlers :
        /\ bus.next <= MaxRegs
        /\ bus' = [bus EXCEPT !.listeners[e] = @ \cup {Entry(bus.next, fn, TRUE)},
                              !.onces = @ \cup {bus.next},
                              !.next = @ + 1]
        /\ busOp' = BusOp("once", e, bus.listeners[e], NoDelivery)
        /\ UNCHANGED nonBusVars

\* off(event, callback), or the function on() and once() returned
CallOff ==
    \E e \in Events :
        \E x \in bus.listeners[e] :
            /\ bus' = [bus EXCEPT !.listeners = Off(@, e, x)]
            /\ busOp' = BusOp("off", e, bus.listeners[e], NoDelivery)
            /\ UNCHANGED nonBusVars

\* emit(event, data) from outside any subscriber
CallEmit ==
    \E e \in Events :
        \E d \in {BusEmit(bus, e)} :
            /\ bus' = [bus EXCEPT !.listeners = d.listeners, !.seen = d.seen]
            /\ busOp' = BusOp("emit", e, bus.listeners[e], d)
            /\ UNCHANGED nonBusVars

\* clear(event)
CallClear ==
    \E e \in Events :
        /\ bus.listeners[e] # {}
        /\ bus' = [bus EXCEPT !.listeners[e] = {}]
        /\ busOp' = BusOp("clear", e, bus.listeners[e], NoDelivery)
        /\ UNCHANGED nonBusVars

BusInit ==
    /\ bus = NewBus
    /\ busOp = BusOp("new", "e1", {}, NoDelivery)

\* A bus nobody calls.
BusIdle == BusInit

BusNext ==
    \/ CallOn
    \/ CallOnce
    \/ CallOff
    \/ CallEmit
    \/ CallClear

-----------------------------------------------------------------------------
(* DialogBox typewriter timing (src/src/entities/TiledMap.ts) *)

\* timer, deltaTime and msPerChar are JavaScript numbers: binary floating point
\* in which every sum, difference and quotient is rounded to the nearest
\* representable value, ties to even.  The model keeps that arithmetic with a
\* significand of MantissaBits bits instead of 53.  Times are counted in ticks,
\* Unit ticks to the millisecond, chosen so that a time of 16 to 32 ms (one
\* character, one frame) uses the whole significand.
MantissaBits == 6
Unit == 2^(MantissaBits - 5)

\* The spacing of the representable values around x: the power-of-two multiple
\* u of `from` with x < 2^MantissaBits * u.
RECURSIVE UlpFrom(_, _)
UlpFrom(x, from) ==
    IF x < (2^MantissaBits) * from THEN from ELSE UlpFrom(x, 2 * from)

\* x rounded to a multiple of u, ties to the even multiple.
RoundTo(x, u) ==
    LET q == x \div u
        r == x % u
    IN  IF 2 * r > u \/ (2 * r = u /\ q % 2 = 1) THEN (q + 1) * u ELSE q * u

\* The representable value nearest to x ticks.
Round(x) == RoundTo(x, UlpFrom(x, 1))

\* config.textSpeed ?? 60
TextSpeed == 60

\* Characters of the revealed text, and update calls made on one box.
RevealChars == 3
MaxUpdates == 3

\* const msPerChar = 1000 / this.textSpeed: the quotient in quarter ticks, its
\* last bit set when the division left a remainder, rounded once.
MsPerChar ==
    LET q == (4 * 1000 * Unit) \div TextSpeed
        y == IF (4 * 1000 * Unit) % TextSpeed # 0 /\ q % 2 = 0 THEN q + 1 ELSE q
    IN  RoundTo(y, UlpFrom(y, 4)) \div 4

\* The frame times handed to update: one tick, a 60 Hz frame cut short, a long
\* 60 Hz frame, a 30 Hz frame and a stalled frame.
DeltaTimes == {1, 16 * Unit, 17 * Unit, 33 * Unit, 50 * Unit}

\* show(); displayText(content, onComplete) with content of n characters.
\* `sum` is the exact total of the deltaTimes passed since, `firedAt` the
\* update call during which onComplete ran (0: not yet).
RevealDisplayText(n) ==
    [isVisible |-> TRUE, isComplete |-> FALSE, timer |-> 0, queue |-> n,
     sum |-> 0, updates |-> 0, firedAt |-> 0]

\* while (this.timer >= msPerChar && this.charQueue.length > 0) { shift;
\* this.timer -= msPerChar }
RECURSIVE Consume(_, _)
Consume(timer, queue) ==
    IF timer >= MsPerChar /\ queue > 0
    THEN Consume(Round(timer - MsPerChar), queue - 1)
    ELSE [timer |-> timer, queue |-> queue]

\* update(deltaTime)
RevealUpdate(d, deltaTime) ==
    IF ~d.isVisible \/ d.isComplete
    THEN [d EXCEPT !.sum = @ + deltaTime, !.updates = @ + 1]
    ELSE LET c == Consume(Round(d.timer + deltaTime), d.queue)
         IN  [d EXCEPT !.timer = c.timer,
                       !.queue = c.queue,
                       !.isComplete = (c.queue = 0),
                       !.firedAt = IF c.queue = 0 THEN d.updates + 1 ELSE 0,
                       !.sum = @ + deltaTime,
                       !.updates = @ + 1]

\* One frame of the first box.
UpdateFirst ==
    \E deltaTime \in DeltaTimes :
        /\ rv.a.updates < MaxUpdates
        /\ rv' = [rv EXCEPT !.a = RevealUpdate(@, deltaTime)]
        /\ UNCHANGED nonRvVars

\* One frame of the second box.
UpdateSecond ==
    \E deltaTime \in DeltaTimes :
        /\ rv.b.updates < MaxUpdates
        /\ rv' = [rv EXCEPT !.b = RevealUpdate(@, deltaTime)]
        /\ UNCHANGED nonRvVars

\* Two boxes that were shown and given the same text of n characters.
RvInit ==
    \E n \in 0..RevealChars :
        rv = [chars |-> n, a |-> RevealDisplayText(n), b |-> RevealDisplayText(n)]

\* No reveal is being timed.
RvIdle == rv = [chars |-> 0, a |-> RevealDisplayText(0), b |-> RevealDisplayText(0)]

RvNext == UpdateFirst \/ UpdateSecond

-----------------------------------------------------------------------------
(* Specifications *)

\* A scene manager after construction, beside a store nobody uses.
InitSM == SMInit /\ GSIdle /\ GMIdle /\ DlgIdle /\ PkIdle /\ BusIdle /\ RvIdle

\* A store after construction, beside a scene manager nobody uses.
InitGS == GSInit /\ SMIdle /\ GMIdle /\ DlgIdle /\ PkIdle /\ BusIdle /\ RvIdle

\* The game after Game.start(): the manager holds the three scenes, the store
\* is fresh.
Init ==
    /\ smScenes = GameScenes
    /\ smCurrent = "menu"
    /\ smTrace = << >>
    /\ smOp = [kind |-> "init", name |-> "menu", data |-> NoData, prev |-> "menu"]
    /\ GSIdle
    /\ GMInit
    /\ DlgIdle
    /\ PkIdle
    /\ BusIdle
    /\ RvIdle

Next == GameNext

Spec == Init /\ [][Next]_vars

\* The game after Game.start() in a run with overlapping continuations.
InitOverlap ==
    /\ smScenes = GameScenes
    /\ smCurrent = "menu"
    /\ smTrace = << >>
    /\ smOp = [kind |-> "init", name |-> "menu", data |-> NoData, prev |-> "menu"]
    /\ GSIdle
    /\ GMInitOverlap
    /\ DlgIdle
    /\ PkIdle
    /\ BusIdle
    /\ RvIdle

SpecOverlap == InitOverlap /\ [][Next]_vars

\* The game after Game.start() in a run where the player uses Enter, Escape
\* and the first move key.
InitLive ==
    /\ smScenes = GameScenes
    /\ smCurrent = "menu"
    /\ smTrace = << >>
    /\ smOp = [kind |-> "init", name |-> "menu", data |-> NoData, prev |-> "menu"]
    /\ GSIdle
    /\ GMInitLive
    /\ DlgIdle
    /\ PkIdle
    /\ BusIdle
    /\ RvIdle

\* The player selects a move while the battle waits for one.
PressMove ==
    /\ smCurrent = "battle"
    /\ battle.currentState = "player-turn"
    /\ \E key \in gmEnv.keys \cap {"1", "2", "3", "4"} : KeyStep(key, "other")

\* Commit(g, kind) is a step that changes the state.
Steps(g, kind) ==
    /\ Admissible(g)
    /\ <<g.world, g.battle, g.timers, g.menuOpen, g.emitted, GMOp(kind, g),
         g.current, g.trace, g.player, g.npcs, g.defaults, g.flags>>
         # <<world, battle, timers, menuOpen, emitted, gmOp,
             smCurrent, smTrace, gsPlayer, gsNpcs, defNpcs, gsFlags>>

\* ENABLED <<Tick>>_vars, <<FireTimer>>_vars and <<PressMove>>_vars, written
\* out.
CanTick ==
    \E k \in 1..TextLen,
       moved \in (IF smCurrent = "world" /\ ~world.frozen
                  THEN SUBSET gmEnv.near ELSE {world.touching}) :
        Steps(Frame(Cur, k, moved), "tick")

CanFireTimer == \E i \in DOMAIN timers : CanFire(i) /\ Steps(Fired(i), "timer")

CanPressMove ==
    /\ smCurrent = "battle"
    /\ battle.currentState = "player-turn"
    /\ \E key \in gmEnv.keys \cap {"1", "2", "3", "4"} :
          Steps(GameKeyPressed(Cur, key, "other"), "key")

\* The running game in a run that keeps going: a delay that can elapse does
\* (WF_vars(Elapse)), and likewise, with the enabling condition written out,
\* frames keep being drawn (p5 calls draw for ever), a setTimeout that is due
\* fires, and the player selects a move whenever the battle waits for one.
SpecLive ==
    /\ InitLive /\ [][Next]_vars
    /\ WF_vars(Elapse)
    /\ ([]<>(~CanTick) \/ []<><<Tick>>_vars)
    /\ ([]<>(~CanFireTimer) \/ []<><<FireTimer>>_vars)
    /\ ([]<>(~CanPressMove) \/ []<><<PressMove>>_vars)

SpecSM == InitSM /\ [][SMNext]_vars

SpecGS == InitGS /\ [][GSNext]_vars

SpecPersist == InitGS /\ [][PersistNext]_vars

SpecReset == InitGS /\ [][ResetNext]_vars

\* A store that is changed, saved and loaded, with the localStorage key also
\* written by the JavaScript game.
SpecLoad == InitGS /\ [][LoadNext]_vars

\* A dialogue box after construction, beside components nobody uses.
InitDlg ==
    /\ DlgInit
    /\ SMIdle
    /\ GSIdle
    /\ GMIdle
    /\ PkIdle
    /\ BusIdle
    /\ RvIdle

SpecDlg == InitDlg /\ [][DlgNext]_vars

\* A pokemon after construction, beside components nobody uses.
InitPokemon ==
    /\ PkInit
    /\ SMIdle
    /\ GSIdle
    /\ GMIdle
    /\ DlgIdle
    /\ BusIdle
    /\ RvIdle

SpecPokemon == InitPokemon /\ [][PkNext]_vars

\* An event bus after construction, beside components nobody uses.
InitBus ==
    /\ BusInit
    /\ SMIdle
    /\ GSIdle
    /\ GMIdle
    /\ DlgIdle
    /\ PkIdle
    /\ RvIdle

SpecBus == InitBus /\ [][BusNext]_vars

\* Two boxes showing the same text, beside components nobody uses.
InitReveal ==
    /\ RvInit
    /\ SMIdle
    /\ GSIdle
    /\ GMIdle
    /\ DlgIdle
    /\ PkIdle
    /\ BusIdle

SpecReveal == InitReveal /\ [][RvNext]_vars

-----------------------------------------------------------------------------
(* Claims about SceneManager.setScene *)

SMLastWasSetScene == smOp.kind = "setScene"
SMRegistered(name) == name \in DOMAIN smScenes
SMCalls(op) == {i \in 1..Len(smTrace) : smTrace[i].op = op}
SMRank(op) ==
    CASE op = "onExit" -> 1
      [] op = "switch" -> 2
      [] op = "onEnter" -> 3
      [] op = "reset" -> 4
      [] op = "setup" -> 5
      [] OTHER -> 6

\* C1: setScene(name) with an unregistered name leaves currentScene as it was
\* and makes no call at all: no onExit, onEnter, reset or setup on any scene
\* (and no switch of the current pointer, no scene:changed).
C1_UnknownSceneAborts ==
    (SMLastWasSetScene /\ ~SMRegistered(smOp.name))
        => (smCurrent = smOp.prev /\ smTrace = << >>)

\* C1 witness: an unregistered name was requested while the current scene is
\* registered and defines onExit, so a partial transition would have shown.
C1_Witness ==
    /\ SMLastWasSetScene
    /\ ~SMRegistered(smOp.name)
    /\ SMRegistered(smCurrent)
    /\ smScenes[smCurrent].hasOnExit

\* C2 as stated: a transition to a registered, different scene always makes the
\* six calls onExit(old), switch, onEnter(new, context), reset(new), setup(new),
\* scene:changed{from, to}, each once and in this order.
C2_AllSixCalls ==
    (SMLastWasSetScene /\ SMRegistered(smOp.name) /\ smOp.name # smOp.prev)
        => smTrace = << Call("onExit", smOp.prev, NoData),
                        Call("switch", smOp.name, NoData),
                        Call("onEnter", smOp.name, smOp.data),
                        Call("reset", smOp.name, NoData),
                        Call("setup", smOp.name, NoData),
                        Call("emit:scene:changed", smOp.name, smOp.prev) >>

\* C2 amended: for a transition to a registered, different scene the manager
\* calls, each at most once and in the order onExit, switch, onEnter, reset,
\* setup, scene:changed: onExit on the old scene exactly when the old scene is
\* registered and defines onExit; the switch to name; onEnter(context) on the
\* new scene exactly when it defines onEnter; reset() and setup() on the new
\* scene; one scene:changed{from: old, to: name}.
C2_OrderedLifecycle ==
    (SMLastWasSetScene /\ SMRegistered(smOp.name) /\ smOp.name # smOp.prev)
        => /\ \A i, j \in 1..Len(smTrace) :
                  i < j => SMRank(smTrace[i].op) < SMRank(smTrace[j].op)
           /\ \A op \in {"switch", "reset", "setup", "emit:scene:changed"} :
                  Cardinality(SMCalls(op)) = 1
           /\ Cardinality(SMCalls("onExit")) =
                  (IF SMRegistered(smOp.prev) /\ smScenes[smOp.prev].hasOnExit
                   THEN 1 ELSE 0)
           /\ Cardinality(SMCalls("onEnter")) =
                  (IF smScenes[smOp.name].hasOnEnter THEN 1 ELSE 0)
           /\ \A i \in 1..Len(smTrace) :
                  /\ smTrace[i].op = "onExit" => smTrace[i].scene = smOp.prev
                  /\ smTrace[i].op # "onExit" => smTrace[i].scene = smOp.name
                  /\ smTrace[i].op = "onEnter" => smTrace[i].arg = smOp.data
                  /\ smTrace[i].op = "emit:scene:changed" => smTrace[i].arg = smOp.prev
           /\ smCurrent = smOp.name

\* C2 witness: a transition between two registered scenes that define both
\* hooks, carrying a context.
C2_Witness ==
    /\ SMLastWasSetScene
    /\ SMRegistered(smOp.name) /\ SMRegistered(smOp.prev)
    /\ smOp.name # smOp.prev
    /\ smOp.data # NoData
    /\ smScenes[smOp.prev].hasOnExit
    /\ smScenes[smOp.name].hasOnEnter
    /\ Len(smTrace) = 6

\* The lifecycle calls of the last setScene: reset, onEnter and setup, in the
\* order the manager made them.
SMLifecycle ==
    LET IsLifecycle(c) == c.op \in {"reset", "onEnter", "setup"}
    IN  [i \in DOMAIN SelectSeq(smTrace, IsLifecycle) |->
            SelectSeq(smTrace, IsLifecycle)[i].op]

\* C34: on every transition into a scene the manager calls reset(), then
\* onEnter(), then setup() on it.
C34_ResetThenEnterThenSetup ==
    (/\ SMLastWasSetScene
     /\ SMRegistered(smOp.name)
     /\ smOp.name # smOp.prev
     /\ smScenes[smOp.name].hasOnEnter)
        => SMLifecycle = << "reset", "onEnter", "setup" >>

-----------------------------------------------------------------------------
(* Claims about the running game *)

\* Positions of the battle:start events among those of the last step.
BattleStarts == {i \in DOMAIN emitted : emitted[i].type = "battle:start"}

\* Pending startBattleTransition continuations of encounters with NPC o.
Chains(o) ==
    Cardinality({i \in DOMAIN timers :
                    /\ timers[i].kind \in {"flash", "battle-start"}
                    /\ timers[i].origin = o})

\* C3: in PlayerTurn, a key that selects an index at which the player's pokemon
\* has no move leaves the battle as it is (state PlayerTurn, no selection).
C3_NoMoveSelectionIsNoOp ==
    [][\A key \in Keys :
          (/\ smCurrent = "battle"
           /\ ~menuOpen
           /\ battle.currentState = "player-turn"
           /\ KeyMoveMap(key) >= battle.moves
           /\ KeyStep(key, "other"))
              => battle' = battle]_vars

C5_BattleStartNamesCollidedNpc ==
    \A i \in BattleStarts :
        /\ emitted[i].npcId = emitted[i].origin
        /\ (i + 1 \in DOMAIN emitted => emitted[i + 1].npcId = emitted[i].origin)

LastCollision == gmOp.collided[Len(gmOp.collided)]

\* The dialogue holds a pre-battle callback of an encounter with NPC o.
PreBattleCallback(o) == world.dialogBox.callback = Callback("battle-transition", o)

C25_EnterClosesPostDefeatText ==
    (/\ smCurrent = "world"
     /\ ~menuOpen
     /\ gmOp.kind = "tick"
     /\ gmOp.collided # << >>
     /\ LastCollision.defeated
     /\ world.dialogBox.isVisible)
        => ~GameKeyPressed(Cur, "Enter", "other").world.dialogBox.isVisible

\* C26: the collision check of a tick handles one NPC, the first registered
\* of those the player meets, and the engaged NPC id is that NPC's.
C26_FirstNpcWinsTheTick ==
    (gmOp.kind = "tick" /\ gmOp.collided # << >>)
        => /\ Len(gmOp.collided) = 1
           /\ world.currentNpcId = gmOp.collided[1].id
           /\ world.dialogBox.callback.origin \in {"none", gmOp.collided[1].id}

\* C27: a tick in the world that finds the player frozen and in a dialogue
\* handles no collision; the box keeps its visibility, its reveal only
\* advances and the engaged NPC stays.
C27_NoDialogueReopened ==
    [][(/\ gmOp'.kind = "tick"
        /\ smCurrent = "world"
        /\ world.frozen
        /\ world.isInDialogue)
          => /\ gmOp'.collided = << >>
             /\ world'.currentNpcId = world.currentNpcId
             /\ world'.dialogBox.isVisible = world.dialogBox.isVisible
             /\ world'.dialogBox.queue <= world.dialogBox.queue
             /\ world'.dialogBox.callback \in {world.dialogBox.callback, NoCallback}]_vars

\* A tick has completed the pre-battle text while the frozen player still
\* touches the NPC, and has handled no collision.
C27_Witness ==
    /\ smCurrent = "world"
    /\ gmOp.kind = "tick"
    /\ gmOp.collided = << >>
    /\ gmOp.completed \in NpcIds
    /\ world.frozen
    /\ world.isInDialogue
    /\ world.touching # {}
    /\ world.dialogBox.isComplete

-----------------------------------------------------------------------------
(* Claims about a battle *)

\* The text of the attack of the running turn is being revealed; its callback
\* will apply the damage.
AttackTextPending ==
    /\ battle.dialogBox.isVisible
    /\ ~battle.dialogBox.isComplete
    /\ battle.dialogBox.callback =
          Callback(IF battle.log.turn = "player" THEN "player-attack" ELSE "npc-attack",
                   "none")

\* C17: in a turn the attack handler is called at most once and damage is
\* applied at most once, by that handler's text; a turn that is Processing
\* without its damage has the attack text pending; and a turn ends, by the
\* next turn or by BattleEnd, with its damage applied.
C17_OneAttackPerTurn ==
    /\ [](/\ battle.log.runs <= 1
          /\ battle.log.hits <= 1
          /\ battle.log.hits = 1 => battle.log.runs = 1
          /\ (battle.currentState = "processing" /\ battle.log.hits = 0)
                => AttackTextPending
          /\ battle.currentState \in {"battle-end", "winner-declared"}
                => battle.log.hits = 1)
    /\ [][(/\ battle.log.turn # "none"
           /\ battle'.log.turn # "none"
           /\ battle'.log.turn # battle.log.turn)
              => battle.log.hits = 1]_vars

\* An NPC turn has run its course after ticks and key presses: the player is
\* to move again, one handler call and one damage application on record.
C17_Witness ==
    /\ battle.currentState = "player-turn"
    /\ battle.log.turn = "npc"
    /\ battle.log.runs = 1
    /\ battle.log.hits = 1
    /\ battle.log.hitCount = 2

\* C18: a damage application is by the side that did not apply the one before,
\* and the first of a battle is the player's.
C18_HitsAlternate ==
    [][battle'.log.hitCount = battle.log.hitCount + 1
          => /\ battle'.log.lastHit # battle.log.lastHit
             /\ battle.log.hitCount = 0 => battle'.log.lastHit = "player"]_vars

\* Player, NPC and player again have applied damage in one battle.
C18_Witness ==
    /\ battle.log.hitCount = 3
    /\ battle.log.lastHit = "player"

\* C19: the two pokemon are never both fainted.
C19_NotBothFainted ==
    ~(battle.playerHp = 0 /\ battle.npcHp = 0)

\* The NPC's pokemon has fainted after both sides took damage.
C19_Witness ==
    /\ battle.npcHp = 0
    /\ battle.playerHp > 0
    /\ battle.playerHp < MaxHp
    /\ battle.currentState = "winner-declared"

\* The positions of the battle:complete events among those of the last step.
BattleCompletes == {i \in DOMAIN emitted : emitted[i].type = "battle:complete"}

\* C20: a battle emits battle:complete at most once; while
\* WinnerDeclared has not emitted, the result text is pending; the step that
\* emits has applied GameState's handler and switches no scene; and the game
\* leaves the battle for the world only after the emission.
C20_CompleteOnceBeforeLeaving ==
    /\ [](/\ battle.log.completes <= 1
          /\ (battle.currentState = "winner-declared" /\ battle.log.completes = 0)
                => /\ battle.dialogBox.isVisible
                   /\ ~battle.dialogBox.isComplete
                   /\ battle.dialogBox.callback.kind \in {"won", "lost"})
    /\ [][/\ battle'.log.completes = battle.log.completes + 1
                => /\ Cardinality(BattleCompletes') = 1
                   /\ smCurrent' = "battle"
                   /\ \A i \in BattleCompletes', o \in NpcIds :
                         (emitted'[i].result = "win" /\ emitted'[i].npcId = o)
                            => NpcObjDefeated(gsNpcs', defNpcs', o)
          /\ BattleCompletes' # {}
                => battle'.log.completes = battle.log.completes + 1
          /\ (smCurrent = "battle" /\ smCurrent' = "world")
                => battle.log.completes = 1]_vars

\* The game is back in the world after a battle that emitted battle:complete.
C20_Witness ==
    /\ smCurrent = "world"
    /\ gmOp.kind = "timer"
    /\ battle.currentState = "winner-declared"
    /\ battle.log.completes = 1

\* C21: the step that takes the battle from PlayerAttack to Processing has
\* applied the damage of the selected move to the NPC's pokemon.
C21_DamageOnEntry ==
    [][(battle.currentState = "player-attack"
        /\ battle'.currentState = "processing")
          => battle'.npcHp =
                TakeDamage(battle.npcHp,
                           Damage(battle.moves, battle.selectedMoveIndex))]_vars

\* The calls of one setScene include onEnter on the battle scene.
EntersBattle(trace) ==
    \E i \in DOMAIN trace : trace[i].op = "onEnter" /\ trace[i].scene = "battle"

\* State Default, no move selected, both pokemon at full HP (hence not
\* fainted), slide positions at their initial values.
BattleFresh(b) ==
    /\ b.currentState = "default"
    /\ b.selectedMoveIndex = -1
    /\ b.playerHp = MaxHp
    /\ b.npcHp = MaxHp
    /\ ~b.slid

C33_SetSceneNotReentered == ~gmOp.reentered

\* A step whose setScene call ran all the hooks of the battle scene and whose
\* transition was asked for by a scene:transition event.
C33_Witness ==
    /\ EntersBattle(smTrace)
    /\ \E i \in DOMAIN smTrace : smTrace[i].op = "reset" /\ smTrace[i].scene = "battle"
    /\ \E i \in DOMAIN smTrace : smTrace[i].op = "setup" /\ smTrace[i].scene = "battle"
    /\ \E i \in DOMAIN emitted : emitted[i].type = "scene:transition"
    /\ \E i \in DOMAIN emitted : emitted[i].type = "scene:changed"
    /\ ~gmOp.reentered

\* The scene whose choreography set timer t: startBattleTransition belongs to
\* the world scene, every other wait to the battle scene.
SceneOf(t) == IF t.kind \in {"flash", "battle-start"} THEN "world" ELSE "battle"

\* The game with timer i taken off the pending ones and nothing else done.
Dropped(i) ==
    [Cur EXCEPT !.timers = [j \in 1..(Len(timers) - 1) |->
                               IF j < i THEN timers[j] ELSE timers[j + 1]]]

\* C35: a delayed continuation that fires when the scene that scheduled it is
\* no longer the active scene applies no effect: it changes no state of any
\* scene or of the store, schedules nothing and emits no event.
C35_StaleContinuationDoesNothing ==
    \A i \in DOMAIN timers :
        (CanFire(i) /\ SceneOf(timers[i]) # smCurrent) => Fired(i) = Dropped(i)

\* C36: a battle in progress is never restarted: no step invokes
\* BattleScene.onEnter or handles scene:transition{to: "battle"} while battle
\* is already the current scene.
C36_BattleNeverRestarted ==
    [][smCurrent = "battle" => ~EntersBattle(smTrace')]_vars

\* A battle whose reward the model can still follow.
FollowedBattle ==
    /\ smCurrent = "battle"
    /\ gsPlayer.money + RewardMoney <= DefaultMoney + MaxWins * RewardMoney

\* C37: ticks keep occurring, delays elapse and the player selects a move in
\* every PlayerTurn; then a battle that was entered reaches WinnerDeclared and
\* the current scene becomes world again.
C37_BattleEndsAndReturns ==
    /\ FollowedBattle ~> (battle.currentState = "winner-declared")
    /\ FollowedBattle ~> (smCurrent = "world")

\* C38: in WorldScene the player is frozen whenever a dialogue is in progress,
\* after any interleaving of collisions, Enter presses and opening and closing
\* of the settings menu.
C38_FrozenWhileInDialogue == world.isInDialogue => world.frozen

\* C40: the settings menu is open only while the current scene is world, also
\* when a pending battle transition fires while the menu is open.
C40_MenuOpenOnlyInWorld == menuOpen => smCurrent = "world"

-----------------------------------------------------------------------------
(* Claims about Pokemon *)

\* The last call applied damage: takeDamage, or performAttack with a move.
DamageTaken ==
    \/ pkOp.kind = "takeDamage"
    \/ pkOp.kind = "performAttack" /\ pkOp.amount # -1

\* C23: after a call that applies damage currentHp is max(0, previous -
\* amount), and currentHp is always between 0 and maxHp.
C23_HpClamped ==
    /\ DamageTaken
          => pk.currentHp = IF pkOp.before - pkOp.amount > 0
                            THEN pkOp.before - pkOp.amount ELSE 0
    /\ 0 <= pk.currentHp
    /\ pk.currentHp <= MaxHpOf(pk)

\* An attack has dealt more damage than the hit points that were left.
C23_Witness ==
    /\ pkOp.kind = "performAttack"
    /\ pkOp.before > 0
    /\ pkOp.before < MaxHpOf(pk)
    /\ pkOp.amount > pkOp.before
    /\ pk.currentHp = 0

\* C24: isFainted is true exactly when currentHp is 0.
C24_FaintedIffZero ==
    pk.isFainted <=> pk.currentHp = 0

-----------------------------------------------------------------------------
(* Claims about EventBus *)

\* The function of registration n was called during the last emit.
CalledInEmit(n) == \E i \in DOMAIN busOp.calls : busOp.calls[i] = n

\* C28: an emit calls every function that was registered for the event when
\* it began, whatever the others did, and no error leaves emit.
C28_ThrowingHandlerIsolated ==
    busOp.kind = "emit"
        => /\ ~busOp.threw
           /\ \A x \in busOp.before : CalledInEmit(x.n)

\* An emit has called a subscriber that threw and then a later one.
C28_Witness ==
    /\ busOp.kind = "emit"
    /\ busOp.errors > 0
    /\ \E x, y \in busOp.before :
          /\ x.fn = "throws"
          /\ y.n > x.n
          /\ CalledInEmit(y.n)

\* C29: the function of a once() registration is called at most once, and
\* after its call the wrapper is in no listener Set.
C29_OnceHandlerAtMostOnce ==
    \A n \in bus.onces :
        /\ bus.seen[n] <= 1
        /\ bus.seen[n] = 1 => \A e \in Events : \A x \in bus.listeners[e] : x.n # n

\* A once() subscriber has emitted its own event from inside its call, in an
\* emit that found a subscriber registered before it and one after it.
C29_Witness ==
    /\ busOp.kind = "emit"
    /\ busOp.nested
    /\ \E x, y, z \in busOp.before :
          /\ y.once
          /\ y.fn = "emits"
          /\ x.n < y.n
          /\ y.n < z.n
          /\ bus.seen[y.n] = 1

-----------------------------------------------------------------------------
(* Claims about DialogBox *)

\* The callback c is among those invoked since the last displayText.
HasFired(c) == \E i \in DOMAIN dlgHist.fired : dlgHist.fired[i] = c

\* C11: since the last displayText(s, cb) at most one callback invocation has
\* happened, whatever calls were made; and when the box was visible and only
\* update calls followed, the update that exhausts the queue has invoked cb.
C11_CallbackInvokedOnce ==
    /\ Len(dlgHist.fired) <= 1
    /\ \A i \in DOMAIN dlgHist.fired : dlgHist.fired[i] = dlgHist.session
    /\ (/\ dlgHist.session # NoCallback
        /\ dlgHist.startVisible
        /\ dlgHist.onlyUpdates
        /\ dlgHist.op = "update"
        /\ dlg.queue = 0)
           => (dlg.isComplete /\ dlgHist.fired = <<dlgHist.session>>)

\* A reveal of the longest content on a visible box has run to its end under
\* update calls alone.
C11_Witness ==
    /\ dlgHist.session # NoCallback
    /\ dlgHist.startVisible
    /\ dlgHist.onlyUpdates
    /\ dlgHist.op = "update"
    /\ Len(dlg.fullText) = MaxContent
    /\ dlg.isComplete
    /\ dlgHist.fired = <<dlgHist.session>>

\* C12: a callback that was pending when displayText was called with another
\* one is not invoked by any call made before the next displayText.
C12_OverwrittenCallbackNeverRuns ==
    (dlgHist.over # NoCallback /\ dlgHist.over # dlgHist.session)
        => ~HasFired(dlgHist.over)

\* The second reveal has completed and invoked its own callback.
C12_Witness ==
    /\ dlgHist.over # NoCallback
    /\ dlgHist.session # NoCallback
    /\ dlgHist.over # dlgHist.session
    /\ dlgHist.fired = <<dlgHist.session>>

\* C13 as stated: once hide() was called on a reveal in flight, no sequence of
\* show, hide and update calls invokes its callback.
C13_HideDiscardsCallback ==
    (dlgHist.hidInFlight /\ ~dlgHist.strayed) => dlgHist.fired = << >>

\* C14: a show() or hide() call leaves full text, revealed prefix, queue,
\* completion flag and callback as they were and sets the visibility flag.
C14_ShowHideTouchVisibilityOnly ==
    [][dlgHist'.op \in {"show", "hide"}
          => /\ dlg' = [dlg EXCEPT !.isVisible = (dlgHist'.op = "show")]
             /\ dlgHist'.fired = dlgHist.fired]_vars

\* hide() has just been called on a reveal that is half way.
C14_Witness ==
    /\ dlgHist.op = "hide"
    /\ ~dlg.isVisible
    /\ InFlight(dlg)
    /\ dlg.queue > 0
    /\ dlg.displayedText # << >>

\* C15: once displayTextImmediately was called on a reveal in flight, no call
\* made before the next displayText invokes a callback.
C15_ImmediateTextInvokesNothing ==
    dlgHist.immInFlight => dlgHist.fired = << >>

\* After displayTextImmediately on a reveal in flight the visible box has been
\* updated; the callback of the reveal is still held.
C15_Witness ==
    /\ dlgHist.immInFlight
    /\ dlgHist.op = "update"
    /\ dlg.isVisible
    /\ dlg.callback # NoCallback

\* C16 as stated: when displayText has just returned from a call with empty
\* content the box is complete.
C16_EmptyTextCompleteAtOnce ==
    (dlgHist.op = "displayText" /\ dlgHist.empty) => dlg.isComplete

-----------------------------------------------------------------------------
(* Claims about GameState *)

\* C7: a deserialize whose input is not a complete blob (not JSON, not an
\* object, or an object lacking one of the four sections) lets no exception
\* out and leaves player, NPC table, flags and current map as they were.
C7_FailedDeserializeLeavesState ==
    [][\A text \in SampleTexts :
          (Deserialize(text) /\ ~IsCompleteBlob(text))
              => (~gsOp'.threw /\ GSContent' = GSContent)]_vars

\* C8: after setNPCDefeated, battle:complete, npc:defeated, setPlayerPosition,
\* addMoney, setFlag and setCurrentMap in any order, reset() leaves the four
\* sections equal to those of a freshly started game.
C8_ResetRestoresDefaults ==
    gsOp.kind = "reset" => GSContent = FreshContent

\* C9 as stated: a defeated flag that is true goes back to false only by the
\* debug toggle or by reset().
C9_OnlyToggleOrResetUndefeats ==
    [][\A id \in NpcIds :
          (IsNPCDefeated(id) /\ ~IsNPCDefeated(id)')
              => gsOp'.kind \in {"debugToggle", "reset"}]_vars

\* C9: a defeated flag that is true stays true under battle:complete (any
\* result), npc:defeated, setNPCDefeated and save; it goes back to false only
\* by the debug toggle, by reset(), or by load/deserialize of a text in which
\* the NPC is not defeated.
C9_DefeatedMonotone ==
    [][\A id \in NpcIds :
          (IsNPCDefeated(id) /\ ~IsNPCDefeated(id)')
              => gsOp'.kind \in {"debugToggle", "reset", "load", "deserialize"}]_vars

\* A defeated NPC has been through a save and is still defeated.
C9_Witness ==
    /\ gsOp.kind = "save"
    /\ storage.present
    /\ IsNPCDefeated("gentleman_01")

\* C10: with isNPCDefeated(id) already true, another battle:complete win for
\* id leaves the NPC table, the flags and the player's money as they were.
C10_RepeatedWinChangesNothing ==
    [][\A id \in NpcIds :
          (IsNPCDefeated(id) /\ gsOp'.kind = "battle:complete:win" /\ gsOp'.id = id)
              => /\ NpcsContent' = NpcsContent
                 /\ gsFlags' = gsFlags
                 /\ gsPlayer'.money = gsPlayer.money]_vars

\* What the four sections of a store hold after a deserialize.
ContentAfter(r) ==
    [player |-> [defined |-> r.player.defined,
                 money |-> r.player.money,
                 pos |-> IF ~r.player.defined THEN DefaultPosition
                         ELSE IF r.player.posRef = "default" THEN defPos
                         ELSE r.player.pos],
     npcs |-> [id \in DOMAIN r.npcs |-> NpcObjDefeated(r.npcs, defNpcs, id)],
     flags |-> r.flags,
     currentMap |-> r.currentMap]

C39_UnknownNpcIsNoOp ==
    [][(/\ gsOp'.id = UnknownNpc
        /\ gsOp'.kind \in {"setNPCDefeated", "npc:defeated", "battle:complete:win"})
          => /\ ~gsOp'.threw
             /\ NpcsContent' = NpcsContent
             /\ gsFlags' = gsFlags
             /\ gsPlayer'.money = gsPlayer.money]_vars

\* C31: load() emits game:load only when a stored blob exists and was
\* deserialized successfully.
C31_LoadEventOnlyOnSuccess ==
    (gsOp.kind = "load" /\ gsOp.emitted = "game:load")
        => (storage.present /\ ~gsOp.failed)

-----------------------------------------------------------------------------
(* Claims about the typewriter timing *)

\* C32: the update call at which the completion callback fires depends only on
\* the cumulative deltaTime passed to update since displayText, not on how
\* that time is split: two reveals of the same text that have been given the
\* same total have both fired or both not fired.
C32_FiringDependsOnTotalOnly ==
    (rv.a.sum = rv.b.sum) => (rv.a.isComplete = rv.b.isComplete)

====
